---- MODULE Spec2Model ----
(***************************************************************************)
(* Refund decision agent (AgenteReembolsoV2): the orchestrated pipeline    *)
(* processar_solicitacao, the rule engine MotorPoliticasExpandido, the     *)
(* scoring SistemaScoring, the provider manager GerenciadorLLM and the     *)
(* exception wrapper tratar_excecoes.                                      *)
(*                                                                         *)
(* Encoding of Python values:                                              *)
(*   - a text is a sequence of one-character strings;                      *)
(*   - money is an integer number of centavos, a score or a confidence is  *)
(*     an integer number of thousandths (0.7 is 700), a partial score an   *)
(*     integer number of hundredths (0.95 is 95);                          *)
(*   - a dictionary entry is a record [t, s, n]: t says whether the key is *)
(*     absent, holds a text (s) or holds a number (n);                     *)
(*   - a raised exception is a result record whose field exc is not "";    *)
(*   - a policy code is the sequence of its parts between underscores      *)
(*     (FRAUDE_F1 is <<"FRAUDE", "F1">>), and the confidence level 'Média' *)
(*     is written "Media".                                                 *)
(***************************************************************************)
EXTENDS Integers, Sequences, FiniteSets, TLC

\* ------------------------------------------------------------------ bounds
\* Registered errors after which no further call is started.
MaxErros == 1

\* --------------------------------------------------------- Python values
AUSENTE == "<ausente>"          \* key not in the dict (dict.get gives None)
NAO_TEXTO == "<numero>"         \* a truthy value that is not a str

Ausente == [t |-> "ausente", s |-> << >>, n |-> 0]
Texto(s) == [t |-> "texto", s |-> s, n |-> 0]
Numero(n) == [t |-> "numero", s |-> << >>, n |-> n]

Digitos == {"0", "1", "2", "3", "4", "5", "6", "7", "8", "9"}

DigitoValor(c) ==
    CASE c = "0" -> 0 [] c = "1" -> 1 [] c = "2" -> 2 [] c = "3" -> 3
      [] c = "4" -> 4 [] c = "5" -> 5 [] c = "6" -> 6 [] c = "7" -> 7
      [] c = "8" -> 8 [] c = "9" -> 9

\* str.replace(',', '.')
ReplaceVirgula(s) == [i \in 1..Len(s) |-> IF s[i] = "," THEN "." ELSE s[i]]

\* str.replace('R$', ''): left-to-right removal of every occurrence
RECURSIVE RemoveCifrao(_)
RemoveCifrao(s) ==
    IF Len(s) = 0 THEN << >>
    ELSE IF Len(s) >= 2 /\ s[1] = "R" /\ s[2] = "$"
         THEN RemoveCifrao(SubSeq(s, 3, Len(s)))
         ELSE <<s[1]>> \o RemoveCifrao(Tail(s))

\* str.strip()
RECURSIVE StripEsq(_)
StripEsq(s) == IF Len(s) > 0 /\ s[1] = " " THEN StripEsq(Tail(s)) ELSE s

RECURSIVE StripDir(_)
StripDir(s) ==
    IF Len(s) > 0 /\ s[Len(s)] = " " THEN StripDir(SubSeq(s, 1, Len(s) - 1)) ELSE s

Strip(s) == StripDir(StripEsq(s))

RECURSIVE ValorDigitos(_)
ValorDigitos(s) ==
    IF Len(s) = 0 THEN 0
    ELSE 10 * ValorDigitos(SubSeq(s, 1, Len(s) - 1)) + DigitoValor(s[Len(s)])

SoDigitos(s) == \A i \in 1..Len(s) : s[i] \in Digitos

PosPonto(s) == {i \in 1..Len(s) : s[i] = "."}

\* float(text) on texts of digits, '.', and surrounding blanks, with at most
\* two decimals: the value in centavos, or ValueError.
ParseFloat(s0) ==
    LET s == Strip(s0)
        pts == PosPonto(s)
    IN IF Len(s) = 0 THEN [exc |-> "ValueError", val |-> 0]
       ELSE IF pts = {}
       THEN IF SoDigitos(s) THEN [exc |-> "", val |-> 100 * ValorDigitos(s)]
            ELSE [exc |-> "ValueError", val |-> 0]
       ELSE IF Cardinality(pts) > 1 THEN [exc |-> "ValueError", val |-> 0]
       ELSE LET p == CHOOSE i \in pts : TRUE
                int == SubSeq(s, 1, p - 1)
                frac == SubSeq(s, p + 1, Len(s))
            IN IF ~SoDigitos(int) \/ ~SoDigitos(frac) \/ Len(int) + Len(frac) = 0
                  \/ Len(frac) > 2
               THEN [exc |-> "ValueError", val |-> 0]
               ELSE [exc |-> "",
                     val |-> 100 * ValorDigitos(int)
                             + (IF Len(frac) = 1 THEN 10 * ValorDigitos(frac)
                                ELSE ValorDigitos(frac))]

\* int(text) on texts of digits and surrounding blanks, or ValueError.
ParseInt(s0) ==
    LET s == Strip(s0)
    IN IF Len(s) > 0 /\ SoDigitos(s) THEN [exc |-> "", val |-> ValorDigitos(s)]
       ELSE [exc |-> "ValueError", val |-> 0]


\* ------------------------------------------------------------ the context
StatusValidos == {"AGUARDANDO_CONFIRMACAO", "EM_PREPARACAO", "SAIU_PARA_ENTREGA",
                  "ENTREGUE", "DESCONHECIDO"}

MotivosConhecidos ==
    {"CANCELAMENTO_RESTAURANTE", "ERRO_RESTAURANTE", "ERRO_APP", "ERRO_ENTREGADOR",
     "NAO_RECEBIDO", "COBRANCA_DUPLICADA", "COBRANCA_POS_CANCELAMENTO", "INCOMPLETO",
     "PEDIDO_ERRADO", "ATRASO_ENTREGA", "VALOR_INCORRETO", "ARREPENDIMENTO_CLIENTE",
     "COMPRA_NAO_RECONHECIDA", "CONTA_COMPROMETIDA", "MULTIPLAS_COBRANCAS"}

CategoriasConhecidas == {"fraude", "entrega", "reembolso", "financeiro", "suporte"}

\* Values a caller can put under each key: absent, empty, valid, malformed.
StatusEntradas == StatusValidos \cup {AUSENTE}
MotivoEntradas == MotivosConhecidos \cup {AUSENTE, "OUTRO"}
CategoriaEntradas == CategoriasConhecidas \cup {AUSENTE, NAO_TEXTO}

\* valor_pedido: absent, empty text, plain numeric text in each value tier,
\* text with 'R$' and a decimal comma, non-numeric text, a number.
ValorEntradas ==
    {Ausente,
     Texto(<< >>),
     Texto(<<"2", "5", ".", "0", "0">>),
     Texto(<<"8", "9", ".", "0", "0">>),
     Texto(<<"R", "$", " ", "1", "5", "0", ",", "0", "0">>),
     Texto(<<"3", "5", "0", ",", "5">>),
     Texto(<<"a", "b", "c">>),
     Numero(50000)}

\* tempo_espera: absent, numeric text in each delay tier, non-numeric text,
\* a number.
TempoEntradas ==
    {Ausente,
     Texto(<<"9", "0">>),
     Texto(<<"4", "5">>),
     Texto(<<"1", "0">>),
     Texto(<<"4", "5", ".", "5">>),
     Numero(60)}

DetalhesDict(v, t) == [t |-> "dict", valor_pedido |-> v, tempo_espera |-> t]
DetalhesAusente == [t |-> "ausente", valor_pedido |-> Ausente, tempo_espera |-> Ausente]
DetalhesNulo == [t |-> "nulo", valor_pedido |-> Ausente, tempo_espera |-> Ausente]

\* tempo_espera is read by _regra_atraso_excessivo only, under motivo
\* ATRASO_ENTREGA; for the other motivos the key is left out.
DetalhesEntradas(motivo) ==
    {DetalhesAusente, DetalhesNulo}
    \cup {DetalhesDict(v, t) : v \in ValorEntradas,
                               t \in IF motivo = "ATRASO_ENTREGA" THEN TempoEntradas
                                     ELSE {Ausente}}

Contexto(st, mo, ca, de) ==
    [t |-> "dict", status |-> st, motivo |-> mo, categoria |-> ca,
     detalhes_adicionais |-> de]

\* contexto = None: not a dict at all
ContextoNulo ==
    [t |-> "nulo", status |-> AUSENTE, motivo |-> AUSENTE, categoria |-> AUSENTE,
     detalhes_adicionais |-> DetalhesAusente]

ContextoEntradas ==
    {ContextoNulo}
    \cup UNION {{Contexto(st, mo, ca, de) : st \in StatusEntradas,
                                            ca \in CategoriaEntradas,
                                            de \in DetalhesEntradas(mo)}
                : mo \in MotivoEntradas}

\* ------------------------------------------------- MotorPoliticasExpandido
TEMPO_LIMITE_CANCELAMENTO_GRATUITO == 5
TEMPO_ATRASO_SIGNIFICATIVO == 30
TEMPO_ATRASO_CRITICO == 60
VALOR_BAIXO == 3000
VALOR_MEDIO == 10000
VALOR_ALTO == 30000

\* Optional[float] / Optional[int] or a raised exception
Nenhum == [exc |-> "", tem |-> FALSE, val |-> 0]
Algum(v) == [exc |-> "", tem |-> TRUE, val |-> v]
Levanta(e) == [exc |-> e, tem |-> FALSE, val |-> 0]

\* the text handed to float(): replace(',', '.').replace('R$', '').strip()
LimpaValor(s) == Strip(RemoveCifrao(ReplaceVirgula(s)))

\* _extrair_valor: only ValueError and TypeError are caught.
_extrair_valor(ctx) ==
    LET det == ctx.detalhes_adicionais
    IN IF det.t = "nulo" THEN Levanta("AttributeError")       \* None.get
       ELSE LET v == IF det.t = "ausente" THEN Ausente ELSE det.valor_pedido
            IN CASE v.t = "ausente" -> Nenhum
                 [] v.t = "texto" ->
                      IF v.s = << >> THEN Nenhum
                      ELSE LET r == ParseFloat(LimpaValor(v.s))
                           IN IF r.exc = "" THEN Algum(r.val) ELSE Nenhum
                 [] v.t = "numero" ->
                      IF v.n = 0 THEN Nenhum
                      ELSE Levanta("AttributeError")          \* number.replace

\* _extrair_tempo_espera
_extrair_tempo_espera(ctx) ==
    LET det == ctx.detalhes_adicionais
    IN IF det.t = "nulo" THEN Levanta("AttributeError")
       ELSE LET v == IF det.t = "ausente" THEN Ausente ELSE det.tempo_espera
            IN CASE v.t = "ausente" -> Nenhum
                 [] v.t = "texto" ->
                      IF v.s = << >> THEN Nenhum
                      ELSE LET r == ParseInt(v.s)
                           IN IF r.exc = "" THEN Algum(r.val) ELSE Nenhum
                 [] v.t = "numero" ->
                      IF v.n = 0 THEN Nenhum ELSE Algum(v.n)  \* int(number)

\* Optional[ResultadoPolitica] or a raised exception
SemResultado ==
    [exc |-> "", tem |-> FALSE, decisao |-> "", confianca |-> "",
     codigo_politica |-> << >>, justificativa |-> "", pontuacao |-> 0]
ResultadoPolitica(d, c, cod, j, p) ==
    [exc |-> "", tem |-> TRUE, decisao |-> d, confianca |-> c,
     codigo_politica |-> cod, justificativa |-> j, pontuacao |-> p]
RegraLevanta(e) ==
    [exc |-> e, tem |-> FALSE, decisao |-> "", confianca |-> "",
     codigo_politica |-> << >>, justificativa |-> "", pontuacao |-> 0]

_regra_fraude_detectada(ctx) ==
    IF ctx.categoria = "fraude" /\ ctx.motivo = "COMPRA_NAO_RECONHECIDA"
    THEN ResultadoPolitica("ANALISE_MANUAL", "Alta", <<"FRAUDE", "F1">>,
                           "Compra nao reconhecida detectada.", 95)
    ELSE SemResultado

_regra_conta_comprometida(ctx) ==
    IF ctx.categoria = "fraude" /\ ctx.motivo = "CONTA_COMPROMETIDA"
    THEN ResultadoPolitica("ANALISE_MANUAL", "Alta", <<"FRAUDE", "F2">>,
                           "Conta possivelmente comprometida.", 98)
    ELSE SemResultado

_regra_multiplos_reembolsos_suspeito(ctx) ==
    IF ctx.motivo = "MULTIPLAS_COBRANCAS"
    THEN ResultadoPolitica("ANALISE_MANUAL", "Media", <<"FRAUDE", "F3">>,
                           "Multiplas cobrancas detectadas.", 75)
    ELSE SemResultado

_regra_cancelamento_restaurante(ctx) ==
    IF ctx.motivo = "CANCELAMENTO_RESTAURANTE"
    THEN ResultadoPolitica("APROVAR", "Alta", <<"CANCELAMENTO", "C1">>,
                           "Cancelamento realizado pelo restaurante.", 100)
    ELSE SemResultado

_regra_erro_app_comprovado(ctx) ==
    IF ctx.motivo = "ERRO_APP"
    THEN ResultadoPolitica("APROVAR", "Alta", <<"CANCELAMENTO", "C2">>,
                           "Erro do aplicativo confirmado.", 100)
    ELSE SemResultado

_regra_pedido_nao_confirmado(ctx) ==
    IF ctx.status = "AGUARDANDO_CONFIRMACAO"
       /\ ctx.motivo \in {"ARREPENDIMENTO_CLIENTE", "CANCELAMENTO_RESTAURANTE", "ERRO_APP"}
    THEN ResultadoPolitica("APROVAR", "Alta", <<"CANCELAMENTO", "C3">>,
                           "Pedido ainda nao confirmado pelo restaurante.", 100)
    ELSE SemResultado

_regra_erro_restaurante(ctx) ==
    IF ctx.motivo = "ERRO_RESTAURANTE"
    THEN ResultadoPolitica("APROVAR", "Alta", <<"ERRO", "E1">>,
                           "Erro do restaurante confirmado.", 95)
    ELSE SemResultado

_regra_erro_entregador(ctx) ==
    IF ctx.motivo = "ERRO_ENTREGADOR"
    THEN ResultadoPolitica("APROVAR", "Alta", <<"ERRO", "E2">>,
                           "Erro do entregador confirmado.", 90)
    ELSE SemResultado

_regra_pedido_nao_recebido(ctx) ==
    IF ctx.motivo = "NAO_RECEBIDO"
    THEN LET valor == _extrair_valor(ctx)
         IN IF valor.exc # "" THEN RegraLevanta(valor.exc)
            ELSE IF valor.tem /\ valor.val # 0 /\ valor.val > VALOR_ALTO
            THEN ResultadoPolitica("ANALISE_MANUAL", "Media", <<"ENTREGA", "D1", "ALTO", "VALOR">>,
                                   "Pedido nao recebido com valor alto.", 70)
            ELSE ResultadoPolitica("APROVAR", "Media", <<"ENTREGA", "D1">>,
                                   "Pedido nao recebido.", 80)
    ELSE SemResultado

_regra_pedido_incompleto(ctx) ==
    IF ctx.motivo = "INCOMPLETO"
    THEN ResultadoPolitica("APROVAR", "Media", <<"ENTREGA", "D2">>,
                           "Pedido incompleto.", 85)
    ELSE SemResultado

_regra_cobranca_duplicada(ctx) ==
    IF ctx.motivo = "COBRANCA_DUPLICADA"
    THEN ResultadoPolitica("APROVAR", "Alta", <<"FINANCEIRO", "FIN1">>,
                           "Cobranca duplicada confirmada.", 95)
    ELSE SemResultado

_regra_cobranca_pos_cancelamento(ctx) ==
    IF ctx.motivo = "COBRANCA_POS_CANCELAMENTO"
    THEN ResultadoPolitica("APROVAR", "Alta", <<"FINANCEIRO", "FIN2">>,
                           "Cobranca indevida apos cancelamento.", 90)
    ELSE SemResultado

_regra_atraso_excessivo(ctx) ==
    IF ctx.motivo = "ATRASO_ENTREGA"
    THEN LET tempo == _extrair_tempo_espera(ctx)
         IN IF tempo.exc # "" THEN RegraLevanta(tempo.exc)
            ELSE IF tempo.tem /\ tempo.val # 0 /\ tempo.val >= TEMPO_ATRASO_CRITICO
            THEN ResultadoPolitica("APROVAR", "Alta", <<"ATRASO", "A1", "CRITICO">>,
                                   "Atraso critico.", 95)
            ELSE IF tempo.tem /\ tempo.val # 0 /\ tempo.val >= TEMPO_ATRASO_SIGNIFICATIVO
            THEN ResultadoPolitica("APROVAR", "Media", <<"ATRASO", "A1", "SIGNIFICATIVO">>,
                                   "Atraso significativo.", 80)
            ELSE ResultadoPolitica("ESCALAR", "Baixa", <<"ATRASO", "A1", "MODERADO">>,
                                   "Atraso reportado.", 50)
    ELSE SemResultado

_regra_arrependimento_antes_preparo(ctx) ==
    IF ctx.motivo = "ARREPENDIMENTO_CLIENTE"
       /\ ctx.status \in {"AGUARDANDO_CONFIRMACAO", "EM_PREPARACAO"}
    THEN ResultadoPolitica("APROVAR", "Alta", <<"ARREPENDIMENTO", "R1">>,
                           "Cancelamento por arrependimento antes da saida.", 90)
    ELSE SemResultado

\* faulty variant of rule R2 that forgets the order already out for delivery
_regra_arrependimento_so_entregue(ctx) ==
    IF ctx.motivo = "ARREPENDIMENTO_CLIENTE"
       /\ ctx.status \in {"ENTREGUE"}
    THEN ResultadoPolitica("REJEITAR", "Alta", <<"ARREPENDIMENTO", "R2">>,
                           "Desistencia apos saida para entrega nao e elegivel.", 95)
    ELSE SemResultado

_regra_arrependimento_apos_saida(ctx) ==
    IF ctx.motivo = "ARREPENDIMENTO_CLIENTE"
       /\ ctx.status \in {"SAIU_PARA_ENTREGA", "ENTREGUE"}
    THEN ResultadoPolitica("REJEITAR", "Alta", <<"ARREPENDIMENTO", "R2">>,
                           "Desistencia apos saida para entrega nao e elegivel.", 95)
    ELSE SemResultado

_regra_valor_alto_analise_manual(ctx) ==
    LET valor == _extrair_valor(ctx)
    IN IF valor.exc # "" THEN RegraLevanta(valor.exc)
       ELSE IF valor.tem /\ valor.val # 0 /\ valor.val > VALOR_ALTO
               /\ ctx.categoria # "fraude"
       THEN ResultadoPolitica("ANALISE_MANUAL", "Media", <<"VALOR", "V1">>,
                              "Pedido de alto valor requer analise manual.", 60)
       ELSE SemResultado

\* the list `regras` of avaliar, in its order
NumRegras == 16

\* faulty variant of the priority list: the pre-confirmation rule (C3) ahead
\* of the restaurant cancellation rule (C1)
Regra_C3_antes_de_C1(i, ctx) ==
    CASE i = 1 -> _regra_fraude_detectada(ctx)
      [] i = 2 -> _regra_conta_comprometida(ctx)
      [] i = 3 -> _regra_pedido_nao_confirmado(ctx)
      [] i = 4 -> _regra_erro_app_comprovado(ctx)
      [] i = 5 -> _regra_cancelamento_restaurante(ctx)
      [] i = 6 -> _regra_erro_restaurante(ctx)
      [] i = 7 -> _regra_erro_entregador(ctx)
      [] i = 8 -> _regra_pedido_nao_recebido(ctx)
      [] i = 9 -> _regra_pedido_incompleto(ctx)
      [] i = 10 -> _regra_cobranca_duplicada(ctx)
      [] i = 11 -> _regra_cobranca_pos_cancelamento(ctx)
      [] i = 12 -> _regra_atraso_excessivo(ctx)
      [] i = 13 -> _regra_arrependimento_antes_preparo(ctx)
      [] i = 14 -> _regra_arrependimento_apos_saida(ctx)
      [] i = 15 -> _regra_valor_alto_analise_manual(ctx)
      [] i = 16 -> _regra_multiplos_reembolsos_suspeito(ctx)

Regra(i, ctx) ==
    CASE i = 1 -> _regra_fraude_detectada(ctx)
      [] i = 2 -> _regra_conta_comprometida(ctx)
      [] i = 3 -> _regra_cancelamento_restaurante(ctx)
      [] i = 4 -> _regra_erro_app_comprovado(ctx)
      [] i = 5 -> _regra_pedido_nao_confirmado(ctx)
      [] i = 6 -> _regra_erro_restaurante(ctx)
      [] i = 7 -> _regra_erro_entregador(ctx)
      [] i = 8 -> _regra_pedido_nao_recebido(ctx)
      [] i = 9 -> _regra_pedido_incompleto(ctx)
      [] i = 10 -> _regra_cobranca_duplicada(ctx)
      [] i = 11 -> _regra_cobranca_pos_cancelamento(ctx)
      [] i = 12 -> _regra_atraso_excessivo(ctx)
      [] i = 13 -> _regra_arrependimento_antes_preparo(ctx)
      [] i = 14 -> _regra_arrependimento_apos_saida(ctx)
      [] i = 15 -> _regra_valor_alto_analise_manual(ctx)
      [] i = 16 -> _regra_multiplos_reembolsos_suspeito(ctx)

\* the for loop of avaliar from rule i on: the result and the rules called
RECURSIVE AvaliarDesde(_, _, _)
AvaliarDesde(i, ctx, chamadas) ==
    IF i > NumRegras THEN [res |-> SemResultado, chamadas |-> chamadas]
    ELSE LET r == Regra(i, ctx)
         IN IF r.exc # "" \/ r.tem THEN [res |-> r, chamadas |-> Append(chamadas, i)]
            ELSE AvaliarDesde(i + 1, ctx, Append(chamadas, i))

avaliar(ctx) == AvaliarDesde(1, ctx, << >>)


\* ------------------------------------------------------------ SistemaScoring
\* a float in hundredths, or a raised exception
Pontos(v) == [exc |-> "", val |-> v]
PontosLevanta(e) == [exc |-> e, val |-> 0]

_score_tipo_problema(ctx) ==
    CASE ctx.categoria = "fraude" -> 90
      [] ctx.categoria = "entrega" -> 80
      [] ctx.categoria = "reembolso" -> 70
      [] ctx.categoria = "financeiro" -> 75
      [] ctx.categoria = "suporte" -> 50
      [] OTHER -> 50

\* _score_valor: the same parse as _extrair_valor, the same uncaught
\* AttributeError.
_score_valor(ctx) ==
    LET det == ctx.detalhes_adicionais
    IN IF det.t = "nulo" THEN PontosLevanta("AttributeError")
       ELSE LET v == IF det.t = "ausente" THEN Ausente ELSE det.valor_pedido
            IN CASE v.t = "ausente" -> Pontos(50)
                 [] v.t = "texto" ->
                      IF v.s = << >> THEN Pontos(50)
                      ELSE LET r == ParseFloat(LimpaValor(v.s))
                           IN IF r.exc # "" THEN Pontos(50)
                              ELSE IF r.val <= 3000 THEN Pontos(90)
                              ELSE IF r.val <= 10000 THEN Pontos(70)
                              ELSE IF r.val <= 30000 THEN Pontos(50)
                              ELSE Pontos(30)
                 [] v.t = "numero" ->
                      IF v.n = 0 THEN Pontos(50)
                      ELSE PontosLevanta("AttributeError")

_score_status(ctx) ==
    CASE ctx.status = "AGUARDANDO_CONFIRMACAO" -> 95
      [] ctx.status = "EM_PREPARACAO" -> 70
      [] ctx.status = "SAIU_PARA_ENTREGA" -> 40
      [] ctx.status = "ENTREGUE" -> 30
      [] ctx.status = "DESCONHECIDO" -> 50
      [] OTHER -> 50

_score_motivo(ctx) ==
    CASE ctx.motivo = "CANCELAMENTO_RESTAURANTE" -> 100
      [] ctx.motivo = "ERRO_RESTAURANTE" -> 95
      [] ctx.motivo = "ERRO_APP" -> 95
      [] ctx.motivo = "ERRO_ENTREGADOR" -> 90
      [] ctx.motivo = "NAO_RECEBIDO" -> 85
      [] ctx.motivo = "COBRANCA_DUPLICADA" -> 90
      [] ctx.motivo = "COBRANCA_POS_CANCELAMENTO" -> 90
      [] ctx.motivo = "INCOMPLETO" -> 75
      [] ctx.motivo = "PEDIDO_ERRADO" -> 75
      [] ctx.motivo = "ATRASO_ENTREGA" -> 60
      [] ctx.motivo = "VALOR_INCORRETO" -> 70
      [] ctx.motivo = "ARREPENDIMENTO_CLIENTE" -> 30
      [] ctx.motivo = "COMPRA_NAO_RECONHECIDA" -> 80
      [] ctx.motivo = "CONTA_COMPROMETIDA" -> 85
      [] ctx.motivo = "MULTIPLAS_COBRANCAS" -> 70
      [] OTHER -> 50

\* round(x, 3) of a sum given in ten-thousandths: the thousandths it can
\* give. On an exact decimal tie the binary value of the float decides, so
\* both neighbours are possible.
Round3(dezmil) ==
    LET q == dezmil \div 10
        r == dezmil % 10
    IN IF r < 5 THEN {q} ELSE IF r > 5 THEN {q + 1} ELSE {q, q + 1}

SemScore ==
    [exc |-> "", tem |-> FALSE, score_final |-> 0,
     scores_parciais |-> [tipo_problema |-> 0, valor_pedido |-> 0, status_pedido |-> 0,
                          motivo |-> 0, politica |-> 0]]

\* calcular_score: the results it can return (one, or two on a rounding tie)
\* SistemaScoring.PESOS, the weights the class declares (hundredths)
PESOS ==
    [historico_cliente |-> 15, valor_pedido |-> 20, tipo_problema |-> 25,
     tempo_resposta |-> 10, evidencias |-> 20, politica_aplicavel |-> 10]

\* the weights of the weighted sum inside calcular_score (hundredths)
PesosAplicados ==
    [tipo_problema |-> 25, valor_pedido |-> 15, status_pedido |-> 15,
     motivo |-> 25, politica |-> 20]

calcular_score(ctx, politica) ==
    LET sv == _score_valor(ctx)
    IN IF sv.exc # "" THEN {[SemScore EXCEPT !.exc = sv.exc]}
       ELSE LET scores == [tipo_problema |-> _score_tipo_problema(ctx),
                           valor_pedido |-> sv.val,
                           status_pedido |-> _score_status(ctx),
                           motivo |-> _score_motivo(ctx),
                           politica |-> IF politica.tem THEN politica.pontuacao ELSE 50]
                soma == scores.tipo_problema * PesosAplicados.tipo_problema
                        + scores.valor_pedido * PesosAplicados.valor_pedido
                        + scores.status_pedido * PesosAplicados.status_pedido
                        + scores.motivo * PesosAplicados.motivo
                        + scores.politica * PesosAplicados.politica
            IN {[exc |-> "", tem |-> TRUE, score_final |-> sf, scores_parciais |-> scores]
                : sf \in Round3(soma)}

\* ------------------------------------------------------------ integracao_llm
ProvedorOPENAI == "openai"
ProvedorGEMINI == "gemini"
ProvedorLOCAL == "local"

RespostaLLM(d, c, j, m, ok) ==
    [decisao_sugerida |-> d, confianca |-> c, justificativa |-> j, modelo |-> m,
     sucesso |-> ok, erro |-> ""]

\* faulty variant of the failure response: sucesso left at its default True
RespostaLLMFalha_sucesso_padrao(j, e) ==
    [RespostaLLM("ESCALAR", 0, j, "", TRUE) EXCEPT !.erro = e]

\* the response of the failure branches: ESCALAR, 0.0, sucesso False, erro set
RespostaLLMFalha(j, e) ==
    [RespostaLLM("ESCALAR", 0, j, "", FALSE) EXCEPT !.erro = e]

SemRespostaLLM == RespostaLLM("", 0, "", "", FALSE)

ModeloDe(provedor) ==
    CASE provedor = ProvedorOPENAI -> "gpt-3.5-turbo"
      [] provedor = ProvedorGEMINI -> "gemini-pro"
      [] provedor = ProvedorLOCAL -> "local_avancado"

\* What the remote model does on one call. falha: the call or the reading of
\* the response raised. json: the text between the first '{' and the last
\* '}' is absent, does not parse, or is an object; decisao and confianca are
\* the values of those keys of the object. palavras: the keywords of the
\* heuristics found in the lower-cased text.
SaidaModelo(f, js, d, c, ps) ==
    [falha |-> f, json |-> js, decisao |-> d, confianca |-> c, palavras |-> ps]

SemSaida == SaidaModelo("", "ausente", AUSENTE, [t |-> "ausente", n |-> 0], {})

Palavras == {"aprovar", "reembolso", "rejeitar", "nao elegivel"}

\* values of the key 'confianca': absent, a number (0.9, 0.8, 0.799, 0.5,
\* 0.499, 1.5), a numeric text, another text, null
ConfiancasJSON ==
    {[t |-> "ausente", n |-> 0], [t |-> "texto_numerico", n |-> 700],
     [t |-> "texto", n |-> 0], [t |-> "nulo", n |-> 0]}
    \cup {[t |-> "numero", n |-> n] : n \in {900, 800, 799, 500, 499, 1500}}

DecisoesJSON == {AUSENTE, "APROVAR", "REJEITAR", "ESCALAR", "TALVEZ"}

\* an object that names a decision holds that word in its text
PalavrasDe(d) ==
    {ps \in SUBSET Palavras :
        /\ d = "APROVAR" => "aprovar" \in ps
        /\ d = "REJEITAR" => "rejeitar" \in ps}

SaidasModelo ==
    {SaidaModelo(f, "ausente", AUSENTE, [t |-> "ausente", n |-> 0], {})
        : f \in {"transporte", "leitura"}}
    \cup {SaidaModelo("", js, AUSENTE, [t |-> "ausente", n |-> 0], ps)
            : js \in {"ausente", "invalido"}, ps \in SUBSET Palavras}
    \cup UNION {{SaidaModelo("", "objeto", d, c, ps) : c \in ConfiancasJSON,
                                                       ps \in PalavrasDe(d)}
                 : d \in DecisoesJSON}

\* the try block of _parsear_resposta, the same in both clients: the parsed
\* object's answer, an exception that leaves _parsear_resposta (TypeError of
\* float(None)), or nothing (no object, JSONDecodeError, ValueError)
ExtrairJSON(saida) ==
    IF saida.json # "objeto" THEN [exc |-> "", tem |-> FALSE, val |-> SemRespostaLLM]
    ELSE CASE saida.confianca.t = "nulo" ->
                [exc |-> "TypeError", tem |-> FALSE, val |-> SemRespostaLLM]
           [] saida.confianca.t = "texto" ->
                [exc |-> "", tem |-> FALSE, val |-> SemRespostaLLM]
           [] OTHER ->
                [exc |-> "", tem |-> TRUE,
                 val |-> RespostaLLM(
                            IF saida.decisao = AUSENTE THEN "ESCALAR" ELSE saida.decisao,
                            IF saida.confianca.t = "ausente" THEN 500
                            ELSE saida.confianca.n,
                            "justificativa do modelo", "", TRUE)]

\* ClienteOpenAI._parsear_resposta
ClienteOpenAI_parsear_resposta(saida) ==
    LET j == ExtrairJSON(saida)
    IN IF j.exc # "" \/ j.tem THEN j
       ELSE [exc |-> "", tem |-> TRUE,
             val |-> RespostaLLM(
                        IF "aprovar" \in saida.palavras \/ "reembolso" \in saida.palavras
                        THEN "APROVAR"
                        ELSE IF "rejeitar" \in saida.palavras
                                \/ "nao elegivel" \in saida.palavras
                        THEN "REJEITAR"
                        ELSE "ESCALAR",
                        500, "texto do modelo", "", TRUE)]

\* ClienteGemini._parsear_resposta
ClienteGemini_parsear_resposta(saida) ==
    LET j == ExtrairJSON(saida)
    IN IF j.exc # "" \/ j.tem THEN j
       ELSE [exc |-> "", tem |-> TRUE,
             val |-> RespostaLLM(
                        IF "aprovar" \in saida.palavras THEN "APROVAR"
                        ELSE IF "rejeitar" \in saida.palavras THEN "REJEITAR"
                        ELSE "ESCALAR",
                        500, "texto do modelo", "", TRUE)]

\* ClienteOpenAI.analisar on a client that is initialised or not
ClienteOpenAI_analisar(disponivel, saida) ==
    IF ~disponivel
    THEN RespostaLLMFalha("API OpenAI nao disponivel", "Cliente nao inicializado")
    ELSE IF saida.falha # "" THEN RespostaLLMFalha("Erro na API", saida.falha)
    ELSE LET r == ClienteOpenAI_parsear_resposta(saida)
         IN IF r.exc # "" THEN RespostaLLMFalha("Erro na API", r.exc)
            ELSE [r.val EXCEPT !.modelo = ModeloDe(ProvedorOPENAI)]

\* ClienteGemini.analisar on a client that is initialised or not
ClienteGemini_analisar(disponivel, saida) ==
    IF ~disponivel
    THEN RespostaLLMFalha("API Gemini nao disponivel", "Cliente nao inicializado")
    ELSE IF saida.falha # "" THEN RespostaLLMFalha("Erro na API", saida.falha)
    ELSE LET r == ClienteGemini_parsear_resposta(saida)
         IN IF r.exc # "" THEN RespostaLLMFalha("Erro na API", r.exc)
            ELSE [r.val EXCEPT !.modelo = ModeloDe(ProvedorGEMINI)]

ClienteRemoto_analisar(provedor, disponivel, saida) ==
    IF provedor = ProvedorOPENAI THEN ClienteOpenAI_analisar(disponivel, saida)
    ELSE ClienteGemini_analisar(disponivel, saida)

\* the outputs of the remote model the pipeline is explored with: a failed
\* call and four structured answers around the confidence thresholds
SaidasPipeline ==
    {SaidaModelo("transporte", "ausente", AUSENTE, [t |-> "ausente", n |-> 0], {})}
    \cup {SaidaModelo("", "objeto", r[1], [t |-> "numero", n |-> r[2]], r[3])
          : r \in {<<"APROVAR", 800, {"aprovar"}>>, <<"REJEITAR", 799, {"rejeitar"}>>,
                   <<"ESCALAR", 500, {}>>, <<"APROVAR", 499, {"aprovar"}>>}}

\* ClienteOpenAI.analisar / ClienteGemini.analisar: what a call of the
\* pipeline can return.
RespostasRemotas(provedor) ==
    {ClienteRemoto_analisar(provedor, TRUE, s) : s \in SaidasPipeline}

\* Matches of palavras_positivas / palavras_negativas in the text
MaxIndicadores == 2

Min(a, b) == IF a < b THEN a ELSE b
Abs(a) == IF a < 0 THEN -a ELSE a

\* score_positivo and score_negativo of a text
Indicadores(p, n) == [pos |-> p, neg |-> n]
SemIndicadores == Indicadores(0, 0)

\* faulty variant: the operational motivos are tested before the category
AnalisadorLocal_motivo_primeiro(pos, neg, ctx) ==
    IF ctx.motivo \in {"ERRO_RESTAURANTE", "ERRO_APP", "CANCELAMENTO_RESTAURANTE"}
    THEN RespostaLLM("APROVAR", 850, "Erro operacional detectado.",
                     "local_avancado", TRUE)
    ELSE IF ctx.categoria = "fraude"
    THEN RespostaLLM("ESCALAR", 900, "Casos de fraude requerem analise manual.",
                     "local_avancado", TRUE)
    ELSE IF ctx.motivo = "ARREPENDIMENTO_CLIENTE"
            /\ ctx.status \in {"SAIU_PARA_ENTREGA", "ENTREGUE"}
    THEN RespostaLLM("REJEITAR", 900, "Arrependimento apos saida nao e elegivel.",
                     "local_avancado", TRUE)
    ELSE RespostaLLM("ESCALAR", 500, "Caso requer analise humana para decisao.",
                     "local_avancado", TRUE)

\* faulty variant: the negative threshold written without its sign
AnalisadorLocal_limiar_sem_sinal(pos, neg, ctx) ==
    IF ctx.categoria = "fraude"
    THEN RespostaLLM("ESCALAR", 900, "Casos de fraude requerem analise manual.",
                     "local_avancado", TRUE)
    ELSE IF ctx.motivo \in {"ERRO_RESTAURANTE", "ERRO_APP", "CANCELAMENTO_RESTAURANTE"}
    THEN RespostaLLM("APROVAR", 850, "Erro operacional detectado.",
                     "local_avancado", TRUE)
    ELSE IF ctx.motivo = "ARREPENDIMENTO_CLIENTE"
            /\ ctx.status \in {"SAIU_PARA_ENTREGA", "ENTREGUE"}
    THEN RespostaLLM("REJEITAR", 900, "Arrependimento apos saida nao e elegivel.",
                     "local_avancado", TRUE)
    ELSE LET den == IF pos + neg > 1 THEN pos + neg ELSE 1
             num == pos - neg
         IN IF 10 * num > 3 * den
            THEN RespostaLLM("APROVAR", Min(600 + (200 * num) \div den, 850),
                             "Analise indica elegibilidade.", "local_avancado", TRUE)
            ELSE IF 10 * num < 3 * den
            THEN RespostaLLM("REJEITAR", Min(600 + (200 * Abs(num)) \div den, 850),
                             "Analise indica nao elegibilidade.", "local_avancado", TRUE)
            ELSE RespostaLLM("ESCALAR", Min(500, 850),
                             "Caso requer analise humana para decisao.",
                             "local_avancado", TRUE)

\* AnalisadorLocalAvancado.analisar, the text given by its indicator counts
AnalisadorLocal_analisar(pos, neg, ctx) ==
    IF ctx.categoria = "fraude"
    THEN RespostaLLM("ESCALAR", 900, "Casos de fraude requerem analise manual.",
                     "local_avancado", TRUE)
    ELSE IF ctx.motivo \in {"ERRO_RESTAURANTE", "ERRO_APP", "CANCELAMENTO_RESTAURANTE"}
    THEN RespostaLLM("APROVAR", 850, "Erro operacional detectado.",
                     "local_avancado", TRUE)
    ELSE IF ctx.motivo = "ARREPENDIMENTO_CLIENTE"
            /\ ctx.status \in {"SAIU_PARA_ENTREGA", "ENTREGUE"}
    THEN RespostaLLM("REJEITAR", 900, "Arrependimento apos saida nao e elegivel.",
                     "local_avancado", TRUE)
    ELSE LET den == IF pos + neg > 1 THEN pos + neg ELSE 1     \* max(1, p + n)
             num == pos - neg
         IN IF 10 * num > 3 * den
            THEN RespostaLLM("APROVAR", Min(600 + (200 * num) \div den, 850),
                             "Analise indica elegibilidade.", "local_avancado", TRUE)
            ELSE IF 10 * num < -3 * den
            THEN RespostaLLM("REJEITAR", Min(600 + (200 * Abs(num)) \div den, 850),
                             "Analise indica nao elegibilidade.", "local_avancado", TRUE)
            ELSE RespostaLLM("ESCALAR", Min(500, 850),
                             "Caso requer analise humana para decisao.",
                             "local_avancado", TRUE)

\* GerenciadorLLM.obter_provedor_ativo over the registered providers (a
\* registered client is an available one: _cliente is set once, in __init__)
NenhumProvedor == "nenhum"

\* faulty variant of the preference order: Gemini ahead of OpenAI
obter_provedor_gemini_primeiro(provs) ==
    IF ProvedorGEMINI \in provs THEN ProvedorGEMINI
    ELSE IF ProvedorOPENAI \in provs THEN ProvedorOPENAI
    ELSE IF ProvedorLOCAL \in provs THEN ProvedorLOCAL
    ELSE NenhumProvedor

obter_provedor_ativo(provs) ==
    IF ProvedorOPENAI \in provs THEN ProvedorOPENAI
    ELSE IF ProvedorGEMINI \in provs THEN ProvedorGEMINI
    ELSE IF ProvedorLOCAL \in provs THEN ProvedorLOCAL
    ELSE NenhumProvedor                       \* self.provedores.get(LOCAL) is None

\* GerenciadorLLM.analisar: the responses the selected client can return
GerenciadorLLM_analisar(provs, ctx) ==
    LET ativo == obter_provedor_ativo(provs)
    IN IF ativo = NenhumProvedor
       THEN {RespostaLLMFalha("Nenhum provedor de analise disponivel", "Sem provedores")}
       ELSE IF ativo = ProvedorLOCAL
       THEN {AnalisadorLocal_analisar(p, n, ctx) : p \in 0..MaxIndicadores,
                                                   n \in 0..MaxIndicadores}
       ELSE RespostasRemotas(ativo)

\* the client object analisar is called on: its provider and whether its
\* _cliente is set
Cliente(provedor, disponivel) == [provedor |-> provedor, disponivel |-> disponivel]

SemCliente == Cliente(NenhumProvedor, FALSE)


\* ---------------------------------------------------------- tratamento_erros
_max_erros == 100

\* _classificar_excecao. The last test is isinstance(e, (Exception,)): dir()
\* inside the function lists its locals, which do not include json, so
\* DESCONHECIDO is never returned.
_classificar_excecao(e) ==
    CASE e = "FileNotFoundError" -> "ARQUIVO_NAO_ENCONTRADO"
      [] e \in {"ValueError", "TypeError"} -> "VALIDACAO"
      [] e \in {"ConnectionError", "TimeoutError"} -> "CONEXAO_FALHOU"
      [] OTHER -> "FORMATO_INVALIDO"

\* GerenciadorErros.registrar on the class-level list
registrar(erros, erro) ==
    Append(IF Len(erros) >= _max_erros THEN Tail(erros) ELSE erros, erro)

\* lista[-quantidade:], the slice obter_ultimos_erros returns: the last
\* quantidade elements for a positive quantidade, the whole list for 0 (-0 is
\* 0), the list without its first -quantidade elements for a negative one.
obter_ultimos_erros(erros, quantidade) ==
    LET n == Len(erros)
        inicio == IF quantidade > 0
                  THEN (IF quantidade >= n THEN 0 ELSE n - quantidade)
                  ELSE (IF -quantidade >= n THEN n ELSE -quantidade)
    IN SubSeq(erros, inicio + 1, n)

\* GerenciadorErros.limpar
limpar == << >>

\* the dict registrar stores: the error and whether a traceback was taken;
\* ordem numbers the registrations
Registro(erro, traceback, ordem) ==
    [erro |-> erro, traceback |-> traceback, ordem |-> ordem]

\* the ErroSistema the wrapper of tratar_excecoes builds for an exception
ErroDoWrapper(e) ==
    [tipo |-> _classificar_excecao(e), severidade |-> "MEDIA", recuperavel |-> TRUE]

\* the ErroSistema a caller of registrar passes
ErroDireto == [tipo |-> "VALIDACAO", severidade |-> "ALTA", recuperavel |-> FALSE]

\* no call of obter_ultimos_erros has returned
SemUltimos == [feito |-> FALSE, quantidade |-> 0, erros |-> << >>]

\* ValidadorContexto.validar: the first component of the returned pair.
\* str(number) is always a text float() accepts; int(number) never raises.
validar(ctx) ==
    /\ ctx.t = "dict"
    /\ ctx.status \notin {AUSENTE, ""}
    /\ ctx.motivo \notin {AUSENTE, ""}
    /\ ctx.status \in StatusValidos
    /\ LET det == ctx.detalhes_adicionais
       IN /\ det.t # "nulo"
          /\ det.t = "dict" =>
               /\ LET v == det.valor_pedido
                  IN (v.t = "texto" /\ v.s # << >>) =>
                         ParseFloat(RemoveCifrao(ReplaceVirgula(v.s))).exc = ""
               /\ LET tp == det.tempo_espera
                  IN (tp.t = "texto" /\ tp.s # << >>) => ParseInt(tp.s).exc = ""

\* ValidadorContexto.normalizar: the defaults for the keys that are absent
normalizar(ctx) ==
    [ctx EXCEPT !.categoria = IF @ = AUSENTE THEN "suporte" ELSE @,
                !.status = IF @ = AUSENTE THEN "DESCONHECIDO" ELSE @,
                !.motivo = IF @ = AUSENTE THEN "OUTRO" ELSE @,
                !.detalhes_adicionais =
                    IF @.t = "ausente" THEN DetalhesDict(Ausente, Ausente) ELSE @]

\* ------------------------------------------------------------------ main_v2
RespostaAgente(rf, conf, acao, fts, cod, sc, det, met) ==
    [t |-> "RespostaAgente", resposta_final |-> rf, confianca |-> conf, acao |-> acao,
     fontes |-> fts, codigo_politica |-> cod, score |-> sc, detalhes_score |-> det,
     metodo_decisao |-> met]

\* the Python None in the place of a RespostaAgente
RespostaNone ==
    [t |-> "None", resposta_final |-> << >>, confianca |-> "", acao |-> "",
     fontes |-> {}, codigo_politica |-> << >>, score |-> 0,
     detalhes_score |-> SemScore.scores_parciais, metodo_decisao |-> << >>]

\* no value yet: the call has not returned
RespostaPendente == [RespostaNone EXCEPT !.t = "pendente"]

_criar_resposta_politica(politica, fts, score) ==
    RespostaAgente(<<politica.justificativa>>, politica.confianca, politica.decisao,
                   fts, politica.codigo_politica, score.score_final,
                   score.scores_parciais, <<"politica">>)

_criar_resposta_llm(resp_llm, fts, score, politica) ==
    RespostaAgente(<<resp_llm.justificativa>>,
                   IF resp_llm.confianca >= 800 THEN "Alta"
                   ELSE IF resp_llm.confianca >= 500 THEN "Media"
                   ELSE "Baixa",
                   resp_llm.decisao_sugerida,
                   fts,
                   IF politica.tem THEN politica.codigo_politica ELSE <<"LLM", "ANALYSIS">>,
                   score.score_final, score.scores_parciais,
                   <<"llm_", resp_llm.modelo>>)

\* faulty variant of the combined decision that rejects below 0.5
_criar_resposta_combinada_limiar_metade(politica, fts, score) ==
    LET acao == IF score.score_final >= 700 /\ politica.decisao \in {"APROVAR", "ESCALAR"}
                THEN "APROVAR"
                ELSE IF score.score_final < 500 THEN "REJEITAR"
                ELSE "ESCALAR"
        justificativa ==
            CASE acao = "APROVAR" -> <<politica.justificativa, "Score de elegibilidade">>
              [] acao = "REJEITAR" -> <<"Elegibilidade baixa", politica.justificativa>>
              [] acao = "ESCALAR" -> <<"Caso requer analise adicional.", politica.justificativa>>
    IN RespostaAgente(justificativa, politica.confianca, acao, fts,
                      politica.codigo_politica, score.score_final,
                      score.scores_parciais, <<"combinado">>)

_criar_resposta_combinada(politica, fts, score) ==
    LET acao == IF score.score_final >= 700 /\ politica.decisao \in {"APROVAR", "ESCALAR"}
                THEN "APROVAR"
                ELSE IF score.score_final < 400 THEN "REJEITAR"
                ELSE "ESCALAR"
        justificativa ==
            CASE acao = "APROVAR" -> <<politica.justificativa, "Score de elegibilidade">>
              [] acao = "REJEITAR" -> <<"Elegibilidade baixa", politica.justificativa>>
              [] acao = "ESCALAR" -> <<"Caso requer analise adicional.", politica.justificativa>>
    IN RespostaAgente(justificativa, politica.confianca, acao, fts,
                      politica.codigo_politica, score.score_final,
                      score.scores_parciais, <<"combinado">>)

\* the source ids the knowledge base holds
Fontes == {"Politica 2.1"}

\* ------------------------------------------------ BaseConhecimentoSemantica
\* The knowledge base is loaded once: its items, by categoria and fonte; two
\* items share a fonte. The text of an item enters a search only through its
\* similarity to the query, which the searches below take as given.
ItemConhecimento(c, f) == [categoria |-> c, fonte |-> f]

Itens ==
    <<ItemConhecimento("Cancelamento", "Politica 3.2"),
      ItemConhecimento("cancelamento", "Politica 3.2"),
      ItemConhecimento("fraude", "Politica 7.1")>>

\* ProcessadorTexto.normalizar on the category texts: lower case, punctuation
\* to blanks, blanks collapsed and stripped
ProcessadorTexto_normalizar(texto) ==
    CASE texto \in {"Cancelamento", "cancelamento", "CANCELAMENTO!"} -> "cancelamento"
      [] texto \in {"Fraude", "fraude", " fraude "} -> "fraude"
      [] OTHER -> texto

ResultadoBusca(itens, i, score, metodo) ==
    [item |-> i, fonte |-> itens[i].fonte, score_similaridade |-> score,
     metodo_match |-> metodo]

\* list.sort(key=score, reverse=True): stable, equal scores keep their order
RECURSIVE InserirOrdenado(_, _)
InserirOrdenado(lista, r) ==
    IF lista = << >> THEN <<r>>
    ELSE IF Head(lista).score_similaridade >= r.score_similaridade
         THEN <<Head(lista)>> \o InserirOrdenado(Tail(lista), r)
         ELSE <<r>> \o lista

RECURSIVE OrdenarPorScore(_)
OrdenarPorScore(lista) ==
    IF lista = << >> THEN << >>
    ELSE InserirOrdenado(OrdenarPorScore(SubSeq(lista, 1, Len(lista) - 1)),
                         lista[Len(lista)])

\* lista[:k]; a negative k counts from the end
Fatia(lista, k) ==
    IF k >= 0 THEN SubSeq(lista, 1, Min(k, Len(lista)))
    ELSE SubSeq(lista, 1, IF Len(lista) + k > 0 THEN Len(lista) + k ELSE 0)

\* the items, in order, that pass a test
RECURSIVE Filtrar(_, _)
Filtrar(n, passa) ==
    IF n = 0 THEN << >>
    ELSE Filtrar(n - 1, passa) \o (IF passa[n] THEN <<n>> ELSE << >>)

\* buscar_por_categoria: every item of the normalised category, score 1.0
buscar_por_categoria(itens, categoria) ==
    LET categoria_norm == ProcessadorTexto_normalizar(categoria)
        idx == Filtrar(Len(itens),
                       [i \in 1..Len(itens) |->
                          ProcessadorTexto_normalizar(itens[i].categoria) = categoria_norm])
    IN [k \in 1..Len(idx) |-> ResultadoBusca(itens, idx[k], 1000, "categoria")]

\* buscar_tfidf: the items of cosine similarity above 0.1, best first, top_k
buscar_tfidf(itens, similaridade, top_k) ==
    LET idx == Filtrar(Len(itens), [i \in 1..Len(itens) |-> similaridade[i] > 100])
        scores == OrdenarPorScore(
                      [k \in 1..Len(idx) |->
                         ResultadoBusca(itens, idx[k], similaridade[idx[k]], "tfidf")])
    IN Fatia(scores, top_k)

\* buscar_exato: the items whose share of the query's tokens is above 0.3
buscar_exato(itens, sobreposicao) ==
    LET idx == Filtrar(Len(itens), [i \in 1..Len(itens) |-> sobreposicao[i] > 300])
    IN [k \in 1..Len(idx) |->
          ResultadoBusca(itens, idx[k], sobreposicao[idx[k]], "exato")]

\* position of a fonte among the entries of resultados_finais, or 0
Posicao(finais, fonte) ==
    IF \E k \in 1..Len(finais) : finais[k].fonte = fonte
    THEN CHOOSE k \in 1..Len(finais) : finais[k].fonte = fonte
    ELSE 0

\* step 1 of buscar: a category result enters boosted unless its fonte is in
RECURSIVE JuntarCategoria(_, _)
JuntarCategoria(finais, rs) ==
    IF rs = << >> THEN finais
    ELSE LET r == Head(rs)
         IN JuntarCategoria(
              IF Posicao(finais, r.fonte) = 0
              THEN Append(finais, [r EXCEPT !.score_similaridade = (@ * 12) \div 10])
              ELSE finais,
              Tail(rs))

\* step 2 of buscar: a TF-IDF result raises the entry of its fonte to the
\* maximum of the two scores, or enters
RECURSIVE JuntarTFIDF(_, _)
JuntarTFIDF(finais, rs) ==
    IF rs = << >> THEN finais
    ELSE LET r == Head(rs)
             k == Posicao(finais, r.fonte)
         IN JuntarTFIDF(
              IF k # 0
              THEN [finais EXCEPT ![k].score_similaridade =
                                     IF @ >= r.score_similaridade THEN @
                                     ELSE r.score_similaridade]
              ELSE Append(finais, r),
              Tail(rs))

\* step 3 of buscar: an exact result adds half its score to the entry of its
\* fonte, or enters
RECURSIVE JuntarExato(_, _)
JuntarExato(finais, rs) ==
    IF rs = << >> THEN finais
    ELSE LET r == Head(rs)
             k == Posicao(finais, r.fonte)
         IN JuntarExato(
              IF k # 0
              THEN [finais EXCEPT ![k].score_similaridade =
                                     @ + r.score_similaridade \div 2]
              ELSE Append(finais, r),
              Tail(rs))

SemResultadosBusca == [exc |-> "", feito |-> FALSE, resultados |-> << >>]

\* BaseConhecimentoSemantica.buscar(consulta, contexto, top_k) on a base
\* holding itens: e.categoria is
\* contexto.get('categoria') or AUSENTE for no contexto or a falsy value;
\* e.similaridade and e.sobreposicao are what the query's text gives per item
buscar(itens, e) ==
    IF e.categoria = NAO_TEXTO
    THEN [exc |-> "AttributeError", feito |-> TRUE, resultados |-> << >>]
    ELSE LET f1 == IF e.categoria # AUSENTE
                   THEN JuntarCategoria(<< >>, buscar_por_categoria(itens, e.categoria))
                   ELSE << >>
             f2 == JuntarTFIDF(f1, buscar_tfidf(itens, e.similaridade, e.top_k * 2))
             f3 == JuntarExato(f2, buscar_exato(itens, e.sobreposicao))
         IN [exc |-> "", feito |-> TRUE,
             resultados |-> Fatia(OrdenarPorScore(f3), e.top_k)]

\* the arguments of buscar: top_k up to MaxTopK, the category of the
\* contexto, the similarities of the query to each item in thousandths
MaxTopK == 3

SimilaridadesTFIDF == {100, 400, 900}
SobreposicoesExato == {300, 500, 1000}

EntradaBusca(c, sim, sob, k) ==
    [categoria |-> c, similaridade |-> sim, sobreposicao |-> sob, top_k |-> k]

SemBusca == EntradaBusca(AUSENTE, << >>, << >>, 0)

EntradasBusca(itens) ==
    {EntradaBusca(c, sim, sob, k) :
        c \in {AUSENTE, "CANCELAMENTO!", "fraude", NAO_TEXTO},
        sim \in [1..Len(itens) -> SimilaridadesTFIDF],
        sob \in [1..Len(itens) -> SobreposicoesExato],
        k \in 0..MaxTopK}

\* _carregar_dados: the items of the file, or none for a file that is missing
BaseNaoConstruida == [construida |-> FALSE, itens |-> << >>]
_carregar_dados(arquivo) ==
    [construida |-> TRUE, itens |-> IF arquivo = "ausente" THEN << >> ELSE Itens]

SemPoliticas == "Nenhuma politica especifica encontrada na base de conhecimento."

\* obter_contexto_relevante(consulta, contexto): buscar with its default
\* top_k of 5, then the fixed sentence for no result or the formatted items
obter_contexto_relevante(itens, e) ==
    LET r == buscar(itens, [e EXCEPT !.top_k = 5])
    IN IF r.exc # "" THEN [exc |-> r.exc, texto |-> ""]
       ELSE IF r.resultados = << >> THEN [exc |-> "", texto |-> SemPoliticas]
       ELSE [exc |-> "", texto |-> "POLITICAS RELEVANTES ENCONTRADAS"]


\* ------------------------------------------------------- ProcessadorTexto
\* Texts are sequences of characters over a letter, an upper-case letter, a
\* blank and a punctuation mark, up to MaxTexto characters.
MaxTexto == 7

Alfabeto == {"e", "L", " ", "!"}

Textos == UNION {[1..n -> Alfabeto] : n \in 0..MaxTexto}

\* str.lower() on one character
Minuscula(c) == IF c = "L" THEN "l" ELSE c

\* a character of the class \w, of the class \s
EhPalavra(c) == c \in {"e", "l", "L"}
EhEspaco(c) == c = " "

\* texto.lower()
Lower(s) == [i \in 1..Len(s) |-> Minuscula(s[i])]

\* re.sub(r'[^\w\s]', ' ', texto)
PontuacaoParaEspaco(s) ==
    [i \in 1..Len(s) |-> IF ~EhPalavra(s[i]) /\ ~EhEspaco(s[i]) THEN " " ELSE s[i]]

\* re.sub(r'\s+', ' ', texto)
RECURSIVE ColapsarEspacos(_)
ColapsarEspacos(s) ==
    IF Len(s) < 2 THEN s
    ELSE IF EhEspaco(s[1]) /\ EhEspaco(s[2]) THEN ColapsarEspacos(Tail(s))
    ELSE <<s[1]>> \o ColapsarEspacos(Tail(s))

\* faulty variant of normalizar: strip() before the punctuation is replaced
NormalizarCaracteres_strip_antes(s) ==
    ColapsarEspacos(PontuacaoParaEspaco(Strip(Lower(s))))

\* ProcessadorTexto.normalizar on a text
NormalizarCaracteres(s) ==
    Strip(ColapsarEspacos(PontuacaoParaEspaco(Lower(s))))

\* str.split(): the maximal runs of characters that are not blanks
RECURSIVE Split(_, _)
Split(s, atual) ==
    IF s = << >> THEN (IF atual = << >> THEN << >> ELSE <<atual>>)
    ELSE IF EhEspaco(Head(s))
         THEN (IF atual = << >> THEN << >> ELSE <<atual>>) \o Split(Tail(s), << >>)
         ELSE Split(Tail(s), Append(atual, Head(s)))

\* the words of ProcessadorTexto.STOPWORDS the alphabet can spell
STOPWORDS == {<<"e">>, <<"e", "l", "e">>}

\* [t for t in tokens if t not in cls.STOPWORDS and len(t) > 2]
RECURSIVE RemoverStopwords(_)
RemoverStopwords(tokens) ==
    IF tokens = << >> THEN << >>
    ELSE (IF Head(tokens) \notin STOPWORDS /\ Len(Head(tokens)) > 2
          THEN <<Head(tokens)>> ELSE << >>)
         \o RemoverStopwords(Tail(tokens))

\* ProcessadorTexto.tokenizar(texto, remover_stopwords)
tokenizar(s, remover_stopwords) ==
    LET tokens == Split(NormalizarCaracteres(s), << >>)
    IN IF remover_stopwords THEN RemoverStopwords(tokens) ELSE tokens

SemTokens == [feito |-> FALSE, normalizado |-> << >>, tokens |-> << >>]


VARIABLES
    pc,                  \* position of the call inside processar_solicitacao
    contexto,            \* the argument contexto of the call
    provedores,          \* GerenciadorLLM.provedores (its keys), set in __init__
    fontes_consultadas,  \* local of processar_solicitacao
    resultado_politica,  \* local of processar_solicitacao
    regras_avaliadas,    \* history: the rules avaliar called, in order
    resultado_score,     \* local of processar_solicitacao
    resposta_llm,        \* local of processar_solicitacao
    chamadas_llm,        \* history: GerenciadorLLM.analisar calls of this call
    resposta,            \* what the decorated processar_solicitacao returned
    excecao,             \* the exception the wrapper caught in this call, or ""
    eventos,             \* the audit events of this call, in order
    erros_registrados,   \* GerenciadorErros._erros_registrados
    cliente,             \* the client a provider call was made on
    saida_modelo,        \* what the remote model did on that call
    indicadores,         \* the indicator matches of the text of a local analysis
    regras_executadas,   \* MotorPoliticasExpandido.regras_executadas of one engine
    linha,               \* per thread: the line of avaliar it is at
    chamada,             \* per thread: the argument contexto of its avaliar call
    resultado,           \* per thread: the local resultado, then the value returned
    lista_trocada,       \* per thread: the list it loaded at line 90 was replaced
    base,                \* a BaseConhecimentoSemantica: constructed, self.itens
    busca_entrada,       \* the arguments of a buscar call on the knowledge base
    busca_saida,         \* what that call returned or raised
    texto,               \* the text given to ProcessadorTexto
    texto_saida,         \* what normalizar and tokenizar returned for it
    num_registros,       \* history: registrar calls since the registry was last empty
    ultimos_erros        \* what a call of obter_ultimos_erros returned

\* the threads that call avaliar on the same engine
Threads == {1, 2}

\* the variables of the agent and of a provider call
vars_agente == <<pc, contexto, provedores, fontes_consultadas, resultado_politica,
                 regras_avaliadas, resultado_score, resposta_llm, chamadas_llm,
                 resposta, excecao, eventos, erros_registrados, cliente, saida_modelo,
                 indicadores>>

\* the variables of avaliar calls running concurrently on one engine
vars_motor == <<regras_executadas, linha, chamada, resultado, lista_trocada>>

\* the variables of a buscar call on a knowledge base of its own
vars_busca == <<base, busca_entrada, busca_saida>>

\* the variables of a ProcessadorTexto call
vars_texto == <<texto, texto_saida>>

\* the variables of calls made on GerenciadorErros itself
vars_erros == <<num_registros, ultimos_erros>>

\* the variables neither the pipeline nor a provider call touches
vars_isoladas == <<vars_motor, vars_busca, vars_texto, vars_erros>>

\* what the actions of each family leave alone
vars_fora_motor == <<vars_agente, vars_busca, vars_texto, vars_erros>>
vars_fora_busca == <<vars_agente, vars_motor, vars_texto, vars_erros>>
vars_fora_texto == <<vars_agente, vars_motor, vars_busca, vars_erros>>
vars_fora_erros == <<pc, contexto, provedores, fontes_consultadas, resultado_politica,
                     regras_avaliadas, resultado_score, resposta_llm, chamadas_llm,
                     resposta, excecao, eventos, cliente, saida_modelo, indicadores,
                     vars_motor, vars_busca, vars_texto>>

vars == <<vars_agente, vars_isoladas>>

\* the variables the pipeline steps do not touch: the record of a provider
\* call explored on its own
vars_provedor == <<cliente, saida_modelo, indicadores>>

\* No agent is constructed yet.
Init ==
    /\ pc = "novo"
    /\ contexto = ContextoNulo
    /\ provedores = {}
    /\ fontes_consultadas = {}
    /\ resultado_politica = SemResultado
    /\ regras_avaliadas = << >>
    /\ resultado_score = SemScore
    /\ resposta_llm = SemRespostaLLM
    /\ chamadas_llm = 0
    /\ resposta = RespostaPendente
    /\ excecao = ""
    /\ eventos = << >>
    /\ erros_registrados = << >>
    /\ cliente = SemCliente
    /\ saida_modelo = SemSaida
    /\ indicadores = SemIndicadores
    /\ regras_executadas = << >>
    /\ linha = [t \in Threads |-> "idle"]
    /\ chamada = [t \in Threads |-> ContextoNulo]
    /\ resultado = [t \in Threads |-> SemResultado]
    /\ lista_trocada = [t \in Threads |-> FALSE]
    /\ base = BaseNaoConstruida
    /\ busca_entrada = SemBusca
    /\ busca_saida = SemResultadosBusca
    /\ texto = << >>
    /\ texto_saida = SemTokens
    /\ num_registros = 0
    /\ ultimos_erros = SemUltimos

\* AgenteReembolsoV2.__init__ -> GerenciadorLLM._inicializar_provedores: each
\* remote client is registered when it reports itself available (credential
\* and library present), the local analyzer always.
Construir ==
    /\ pc = "novo"
    /\ \E ps \in SUBSET {ProvedorOPENAI, ProvedorGEMINI} :
         provedores' = ps \cup {ProvedorLOCAL}
    /\ pc' = "idle"
    /\ UNCHANGED <<contexto, fontes_consultadas, resultado_politica, regras_avaliadas,
                   resultado_score, resposta_llm, chamadas_llm, resposta, excecao,
                   eventos, erros_registrados>>
    /\ UNCHANGED vars_provedor
    /\ UNCHANGED vars_isoladas

\* The except branch of the wrapper of tratar_excecoes(valor_padrao=None,
\* log_erro=True): the error is registered and valor_padrao is returned.
Capturar(e) ==
    /\ excecao' = e
    /\ erros_registrados' =
           registrar(erros_registrados,
                     [tipo |-> _classificar_excecao(e), severidade |-> "MEDIA",
                      recuperavel |-> TRUE])
    /\ resposta' = RespostaNone
    /\ pc' = "retornou"
    /\ UNCHANGED vars_isoladas

\* Call of processar_solicitacao up to log_inicio_processamento, which reads
\* contexto.get and so raises when contexto is not a dict.
Iniciar ==
    /\ pc = "idle"
    /\ Len(erros_registrados) < MaxErros
    /\ \E ctx \in ContextoEntradas :
         /\ contexto' = ctx
         /\ IF ctx.t = "nulo"
            THEN /\ Capturar("AttributeError")
                 /\ UNCHANGED eventos
            ELSE /\ eventos' = <<"INICIO_PROCESSAMENTO">>
                 /\ pc' = "busca"
                 /\ UNCHANGED <<resposta, excecao, erros_registrados>>
    /\ UNCHANGED <<provedores, fontes_consultadas, resultado_politica, regras_avaliadas,
                   resultado_score, resposta_llm, chamadas_llm>>
    /\ UNCHANGED vars_provedor
    /\ UNCHANGED vars_isoladas

\* A direct call of MotorPoliticasExpandido.avaliar on a dict, as the unit
\* tests make it, on an engine of their own with no agent constructed: no
\* wrapper, an exception reaches the caller.
AvaliarDireto ==
    /\ pc = "novo"
    /\ \E ctx \in ContextoEntradas \ {ContextoNulo} :
         LET a == avaliar(ctx)
         IN /\ contexto' = ctx
            /\ regras_avaliadas' = a.chamadas
            /\ resultado_politica' = IF a.res.exc # "" THEN SemResultado ELSE a.res
            /\ excecao' = a.res.exc
    /\ pc' = "avaliou"
    /\ UNCHANGED <<provedores, fontes_consultadas, resultado_score, resposta_llm,
                   chamadas_llm, resposta, eventos, erros_registrados>>
    /\ UNCHANGED vars_provedor
    /\ UNCHANGED vars_isoladas

\* A direct call of SistemaScoring.calcular_score on a dict, with no rule
\* result or with the one avaliar gives for it.
CalcularScoreDireto ==
    /\ pc = "novo"
    /\ \E ctx \in ContextoEntradas \ {ContextoNulo} :
         \E pol \in {SemResultado}
                    \cup (IF avaliar(ctx).res.tem THEN {avaliar(ctx).res} ELSE {}) :
           \E sc \in calcular_score(ctx, pol) :
             /\ contexto' = ctx
             /\ resultado_politica' = pol
             /\ resultado_score' = IF sc.exc # "" THEN SemScore ELSE sc
             /\ excecao' = sc.exc
    /\ pc' = "pontuou"
    /\ UNCHANGED <<provedores, fontes_consultadas, regras_avaliadas, resposta_llm,
                   chamadas_llm, resposta, eventos, erros_registrados>>
    /\ UNCHANGED vars_provedor
    /\ UNCHANGED vars_isoladas

\* The caller has the returned value; the locals of the call are gone.
Retornar ==
    /\ pc \in {"retornou", "avaliou", "pontuou"}
    /\ pc' = IF pc = "retornou" THEN "idle" ELSE "novo"
    /\ contexto' = ContextoNulo
    /\ fontes_consultadas' = {}
    /\ resultado_politica' = SemResultado
    /\ regras_avaliadas' = << >>
    /\ resultado_score' = SemScore
    /\ resposta_llm' = SemRespostaLLM
    /\ chamadas_llm' = 0
    /\ resposta' = RespostaPendente
    /\ excecao' = ""
    /\ eventos' = << >>
    /\ UNCHANGED <<provedores, erros_registrados>>
    /\ UNCHANGED vars_provedor
    /\ UNCHANGED vars_isoladas

\* ETAPA 1: buscar normalises contexto['categoria'] when it is truthy
\* (text.lower()), which raises for a value that is not a str.
EtapaBusca ==
    /\ pc = "busca"
    /\ IF contexto.categoria = NAO_TEXTO
       THEN /\ Capturar("AttributeError")
            /\ UNCHANGED <<fontes_consultadas, eventos>>
       ELSE /\ \E fts \in SUBSET Fontes : fontes_consultadas' = fts
            /\ eventos' = Append(eventos, "BUSCA_BASE_CONHECIMENTO")
            /\ pc' = "regras"
            /\ UNCHANGED <<resposta, excecao, erros_registrados>>
    /\ UNCHANGED <<contexto, provedores, resultado_politica, regras_avaliadas,
                   resultado_score, resposta_llm, chamadas_llm>>
    /\ UNCHANGED vars_provedor
    /\ UNCHANGED vars_isoladas

\* ETAPA 2: motor_politicas.avaliar and log_aplicacao_politica
EtapaRegras ==
    /\ pc = "regras"
    /\ LET a == avaliar(contexto)
       IN /\ regras_avaliadas' = a.chamadas
          /\ IF a.res.exc # ""
             THEN /\ Capturar(a.res.exc)
                  /\ UNCHANGED <<resultado_politica, eventos>>
             ELSE /\ resultado_politica' = a.res
                  /\ eventos' = IF a.res.tem THEN Append(eventos, "APLICACAO_POLITICA")
                                ELSE eventos
                  /\ pc' = "score"
                  /\ UNCHANGED <<resposta, excecao, erros_registrados>>
    /\ UNCHANGED <<contexto, provedores, fontes_consultadas, resultado_score,
                   resposta_llm, chamadas_llm>>
    /\ UNCHANGED vars_provedor
    /\ UNCHANGED vars_isoladas

\* ETAPA 3: sistema_scoring.calcular_score and log_score
EtapaScore ==
    /\ pc = "score"
    /\ \E sc \in calcular_score(contexto, resultado_politica) :
         IF sc.exc # ""
         THEN /\ Capturar(sc.exc)
              /\ UNCHANGED <<resultado_score, eventos>>
         ELSE /\ resultado_score' = sc
              /\ eventos' = Append(eventos, "CALCULO_SCORE")
              /\ pc' = "decisao"
              /\ UNCHANGED <<resposta, excecao, erros_registrados>>
    /\ UNCHANGED <<contexto, provedores, fontes_consultadas, resultado_politica,
                   regras_avaliadas, resposta_llm, chamadas_llm>>
    /\ UNCHANGED vars_provedor
    /\ UNCHANGED vars_isoladas

\* ETAPA 4, first branch: a rule with confidence ALTA decides
DecisaoPolitica ==
    /\ pc = "decisao"
    /\ resultado_politica.tem /\ resultado_politica.confianca = "Alta"
    /\ resposta' = _criar_resposta_politica(resultado_politica, fontes_consultadas,
                                            resultado_score)
    /\ pc' = "finalizacao"
    /\ UNCHANGED <<contexto, provedores, fontes_consultadas, resultado_politica,
                   regras_avaliadas, resultado_score, resposta_llm, chamadas_llm,
                   excecao, eventos, erros_registrados>>
    /\ UNCHANGED vars_provedor
    /\ UNCHANGED vars_isoladas

\* ETAPA 4, second branch: no rule, or a rule with confidence BAIXA:
\* gerenciador_llm.analisar, log_analise_llm, _criar_resposta_llm
DecisaoLLM ==
    /\ pc = "decisao"
    /\ ~(resultado_politica.tem /\ resultado_politica.confianca = "Alta")
    /\ ~resultado_politica.tem \/ resultado_politica.confianca = "Baixa"
    /\ \E r \in GerenciadorLLM_analisar(provedores, contexto) :
         /\ resposta_llm' = r
         /\ resposta' = _criar_resposta_llm(r, fontes_consultadas, resultado_score,
                                            resultado_politica)
    /\ chamadas_llm' = chamadas_llm + 1
    /\ eventos' = Append(eventos, "ANALISE_LLM")
    /\ pc' = "finalizacao"
    /\ UNCHANGED <<contexto, provedores, fontes_consultadas, resultado_politica,
                   regras_avaliadas, resultado_score, excecao, erros_registrados>>
    /\ UNCHANGED vars_provedor
    /\ UNCHANGED vars_isoladas

\* ETAPA 4, else branch: a rule with confidence MEDIA, combined with the score
DecisaoCombinada ==
    /\ pc = "decisao"
    /\ ~(resultado_politica.tem /\ resultado_politica.confianca = "Alta")
    /\ ~(~resultado_politica.tem \/ resultado_politica.confianca = "Baixa")
    /\ resposta' = _criar_resposta_combinada(resultado_politica, fontes_consultadas,
                                             resultado_score)
    /\ pc' = "finalizacao"
    /\ UNCHANGED <<contexto, provedores, fontes_consultadas, resultado_politica,
                   regras_avaliadas, resultado_score, resposta_llm, chamadas_llm,
                   excecao, eventos, erros_registrados>>
    /\ UNCHANGED vars_provedor
    /\ UNCHANGED vars_isoladas

\* ETAPA 5: log_decisao, log_fim_processamento(.., True), return resposta
EtapaFinalizacao ==
    /\ pc = "finalizacao"
    /\ eventos' = eventos \o <<"DECISAO_AUTOMATICA", "FIM_PROCESSAMENTO">>
    /\ pc' = "retornou"
    /\ UNCHANGED <<contexto, provedores, fontes_consultadas, resultado_politica,
                   regras_avaliadas, resultado_score, resposta_llm, chamadas_llm,
                   resposta, excecao, erros_registrados>>
    /\ UNCHANGED vars_provedor
    /\ UNCHANGED vars_isoladas

Next ==
    \/ Construir
    \/ Iniciar
    \/ EtapaBusca
    \/ EtapaRegras
    \/ EtapaScore
    \/ DecisaoPolitica
    \/ DecisaoLLM
    \/ DecisaoCombinada
    \/ EtapaFinalizacao
    \/ AvaliarDireto
    \/ CalcularScoreDireto
    \/ Retornar

Spec == Init /\ [][Next]_vars

\* ------------------------------------------------- the provider layer alone
\* Contexts a provider call is explored with: the special cases of the local
\* analyzer and contexts that reach the provider branch of the pipeline.
ContextosProvedor ==
    {Contexto(st, mo, ca, DetalhesAusente)
        : st \in {AUSENTE, "ENTREGUE"},
          mo \in {"OUTRO", "ATRASO_ENTREGA", "ERRO_RESTAURANTE", "ARREPENDIMENTO_CLIENTE"},
          ca \in {AUSENTE, "fraude"}}

\* the unchanged locals of the pipeline during a provider call
vars_etapas == <<fontes_consultadas, resultado_politica, regras_avaliadas,
                 resultado_score, resposta, excecao, eventos, erros_registrados>>

\* GerenciadorLLM.analisar(prompt, contexto) on the constructed manager: the
\* active provider is selected and its analisar called, for every output of
\* the remote model or every text given to the local analyzer.
GerenciadorAnalisar ==
    /\ pc = "idle"
    /\ \E ctx \in ContextosProvedor :
         LET ativo == obter_provedor_ativo(provedores)
         IN /\ contexto' = ctx
            /\ cliente' = Cliente(ativo, ativo # NenhumProvedor)
            /\ CASE ativo = NenhumProvedor ->
                      /\ saida_modelo' = SemSaida
                      /\ indicadores' = SemIndicadores
                      /\ resposta_llm' \in GerenciadorLLM_analisar(provedores, ctx)
                 [] ativo = ProvedorLOCAL ->
                      /\ saida_modelo' = SemSaida
                      /\ \E p \in 0..MaxIndicadores, n \in 0..MaxIndicadores :
                           /\ indicadores' = Indicadores(p, n)
                           /\ resposta_llm' = AnalisadorLocal_analisar(p, n, ctx)
                 [] OTHER ->
                      \E s \in SaidasModelo :
                        /\ saida_modelo' = s
                        /\ indicadores' = SemIndicadores
                        /\ resposta_llm' = ClienteRemoto_analisar(ativo, TRUE, s)
    /\ chamadas_llm' = chamadas_llm + 1
    /\ pc' = "analisou"
    /\ UNCHANGED provedores
    /\ UNCHANGED vars_etapas
    /\ UNCHANGED vars_isoladas

\* ClienteOpenAI.analisar / ClienteGemini.analisar called on a client of its
\* own, initialised or not, outside any manager.
ClienteAnalisarDireto ==
    /\ pc = "novo"
    /\ \E pr \in {ProvedorOPENAI, ProvedorGEMINI}, disp \in BOOLEAN :
         \E s \in IF disp THEN SaidasModelo ELSE {SemSaida} :
           /\ cliente' = Cliente(pr, disp)
           /\ saida_modelo' = s
           /\ resposta_llm' = ClienteRemoto_analisar(pr, disp, s)
    /\ indicadores' = SemIndicadores
    /\ pc' = "cliente_analisou"
    /\ UNCHANGED <<contexto, provedores, chamadas_llm>>
    /\ UNCHANGED vars_etapas
    /\ UNCHANGED vars_isoladas

\* the contexts the local analyzer is called on directly
ContextosLocal ==
    {Contexto(st, mo, ca, DetalhesAusente)
        : st \in {AUSENTE, "EM_PREPARACAO", "SAIU_PARA_ENTREGA", "ENTREGUE"},
          mo \in {AUSENTE, "OUTRO", "ERRO_RESTAURANTE", "ERRO_APP",
                  "CANCELAMENTO_RESTAURANTE", "ARREPENDIMENTO_CLIENTE"},
          ca \in {AUSENTE, "fraude", "entrega"}}

\* AnalisadorLocalAvancado.analisar(prompt, contexto) called on an analyzer of
\* its own, as the unit tests do, for a text with p positive and n negative
\* indicator matches.
AnalisadorLocalDireto ==
    /\ pc = "novo"
    /\ \E ctx \in ContextosLocal, p \in 0..MaxIndicadores, n \in 0..MaxIndicadores :
         /\ contexto' = ctx
         /\ indicadores' = Indicadores(p, n)
         /\ resposta_llm' = AnalisadorLocal_analisar(p, n, ctx)
    /\ cliente' = Cliente(ProvedorLOCAL, TRUE)
    /\ saida_modelo' = SemSaida
    /\ pc' = "cliente_analisou"
    /\ UNCHANGED <<provedores, chamadas_llm>>
    /\ UNCHANGED vars_etapas
    /\ UNCHANGED vars_isoladas

\* The provider branch of processar_solicitacao after gerenciador_llm.analisar
\* returned: log_analise_llm, _criar_resposta_llm, finalization. The branch is
\* reached with no rule result or one of confidence BAIXA, and a score.
FormarDecisao ==
    /\ pc = "analisou"
    /\ LET politica == avaliar(contexto).res
       IN /\ politica.exc = ""
          /\ ~politica.tem \/ politica.confianca = "Baixa"
          /\ \E sc \in calcular_score(contexto, politica) :
               /\ sc.exc = ""
               /\ resultado_politica' = politica
               /\ resultado_score' = sc
               /\ resposta' = _criar_resposta_llm(resposta_llm, {}, sc, politica)
    /\ pc' = "decidiu"
    /\ UNCHANGED <<contexto, provedores, fontes_consultadas, regras_avaliadas,
                   resposta_llm, chamadas_llm, excecao, eventos, erros_registrados>>
    /\ UNCHANGED vars_provedor
    /\ UNCHANGED vars_isoladas

\* The caller has the response or the Decision.
RetornarProvedor ==
    /\ pc \in {"analisou", "cliente_analisou", "decidiu"}
    /\ pc' = IF pc = "cliente_analisou" THEN "novo" ELSE "idle"
    /\ contexto' = ContextoNulo
    /\ resultado_politica' = SemResultado
    /\ resultado_score' = SemScore
    /\ resposta_llm' = SemRespostaLLM
    /\ chamadas_llm' = 0
    /\ resposta' = RespostaPendente
    /\ cliente' = SemCliente
    /\ saida_modelo' = SemSaida
    /\ indicadores' = SemIndicadores
    /\ UNCHANGED <<provedores, fontes_consultadas, regras_avaliadas, excecao, eventos,
                   erros_registrados>>
    /\ UNCHANGED vars_isoladas

NextProvedores ==
    \/ Construir
    \/ GerenciadorAnalisar
    \/ ClienteAnalisarDireto
    \/ AnalisadorLocalDireto
    \/ FormarDecisao
    \/ RetornarProvedor

SpecProvedores == Init /\ [][NextProvedores]_vars


\* ------------------------------------------- avaliar called by two threads
\* Two threads call MotorPoliticasExpandido.avaliar on the same engine; each
\* step is one statement of avaliar (motor_politicas.py 61-94).
ContextosConcorrentes ==
    {Contexto("ENTREGUE", "ERRO_RESTAURANTE", AUSENTE, DetalhesAusente),
     Contexto("ENTREGUE", "ARREPENDIMENTO_CLIENTE", AUSENTE, DetalhesAusente),
     Contexto(AUSENTE, "OUTRO", AUSENTE, DetalhesAusente),
     Contexto("ENTREGUE", "ATRASO_ENTREGA", AUSENTE, DetalhesNulo)}

\* a thread enters avaliar(contexto)
MotorChamar(t) ==
    /\ linha[t] = "idle"
    /\ \E ctx \in ContextosConcorrentes : chamada' = [chamada EXCEPT ![t] = ctx]
    /\ linha' = [linha EXCEPT ![t] = "l65"]
    /\ UNCHANGED <<regras_executadas, resultado, lista_trocada>>
    /\ UNCHANGED vars_fora_motor

\* line 65: self.regras_executadas = [] binds a new list; a thread that has
\* loaded the old list for its append now holds a list the engine dropped
MotorReiniciar(t) ==
    /\ linha[t] = "l65"
    /\ regras_executadas' = << >>
    /\ lista_trocada' = [u \in Threads |-> lista_trocada[u] \/ linha[u] = "l90_append"]
    /\ linha' = [linha EXCEPT ![t] = "l86"]
    /\ UNCHANGED <<chamada, resultado>>
    /\ UNCHANGED vars_fora_motor

\* lines 86-89 and 94: the loop over the rules; a rule that raises ends the
\* call, the first result goes on to line 90, no result returns None
MotorAplicarRegras(t) ==
    /\ linha[t] = "l86"
    /\ LET r == avaliar(chamada[t]).res
       IN /\ resultado' = [resultado EXCEPT ![t] = r]
          /\ linha' = [linha EXCEPT ![t] = IF r.exc = "" /\ r.tem THEN "l90"
                                           ELSE "retornou"]
    /\ UNCHANGED <<regras_executadas, chamada, lista_trocada>>
    /\ UNCHANGED vars_fora_motor

\* line 90, first half: self.regras_executadas is loaded
MotorCarregarLista(t) ==
    /\ linha[t] = "l90"
    /\ lista_trocada' = [lista_trocada EXCEPT ![t] = FALSE]
    /\ linha' = [linha EXCEPT ![t] = "l90_append"]
    /\ UNCHANGED <<regras_executadas, chamada, resultado>>
    /\ UNCHANGED vars_fora_motor

\* line 90, second half, and line 92: append on the loaded list, return
MotorRegistrar(t) ==
    /\ linha[t] = "l90_append"
    /\ regras_executadas' =
         IF lista_trocada[t] THEN regras_executadas
         ELSE Append(regras_executadas, resultado[t].codigo_politica)
    /\ lista_trocada' = [lista_trocada EXCEPT ![t] = FALSE]
    /\ linha' = [linha EXCEPT ![t] = "retornou"]
    /\ UNCHANGED <<chamada, resultado>>
    /\ UNCHANGED vars_fora_motor

\* the caller has the value (or the exception); the thread may call again
MotorRetornar(t) ==
    /\ linha[t] = "retornou"
    /\ linha' = [linha EXCEPT ![t] = "idle"]
    /\ chamada' = [chamada EXCEPT ![t] = ContextoNulo]
    /\ resultado' = [resultado EXCEPT ![t] = SemResultado]
    /\ UNCHANGED <<regras_executadas, lista_trocada>>
    /\ UNCHANGED vars_fora_motor

NextConcorrente ==
    \E t \in Threads :
        \/ MotorChamar(t)
        \/ MotorReiniciar(t)
        \/ MotorAplicarRegras(t)
        \/ MotorCarregarLista(t)
        \/ MotorRegistrar(t)
        \/ MotorRetornar(t)

SpecConcorrente == Init /\ [][NextConcorrente]_vars


\* ------------------------------------------------- buscar called on its own
\* BaseConhecimentoSemantica(caminho_csv) on a file that exists or not
ConstruirBase ==
    /\ ~base.construida
    /\ \E arquivo \in {"existe", "ausente"} : base' = _carregar_dados(arquivo)
    /\ UNCHANGED <<busca_entrada, busca_saida>>
    /\ UNCHANGED vars_fora_busca

\* BaseConhecimentoSemantica.buscar called with some query, contexto and top_k
Buscar ==
    /\ base.construida
    /\ ~busca_saida.feito
    /\ \E e \in EntradasBusca(base.itens) :
         /\ busca_entrada' = e
         /\ busca_saida' = buscar(base.itens, e)
    /\ UNCHANGED base
    /\ UNCHANGED vars_fora_busca

\* the caller has the list (or the exception)
BuscaRetornar ==
    /\ busca_saida.feito
    /\ busca_entrada' = SemBusca
    /\ busca_saida' = SemResultadosBusca
    /\ UNCHANGED base
    /\ UNCHANGED vars_fora_busca

NextBusca ==
    \/ ConstruirBase
    \/ Buscar
    \/ BuscaRetornar

SpecBusca == Init /\ [][NextBusca]_vars


\* ------------------------------------------- ProcessadorTexto called on a text
\* normalizar(texto) and tokenizar(texto) with stopword removal on
Tokenizar ==
    /\ ~texto_saida.feito
    /\ \E s \in Textos :
         /\ texto' = s
         /\ texto_saida' = [feito |-> TRUE, normalizado |-> NormalizarCaracteres(s),
                            tokens |-> tokenizar(s, TRUE)]
    /\ UNCHANGED vars_fora_texto

\* the caller has the tokens
TokenizarRetornar ==
    /\ texto_saida.feito
    /\ texto' = << >>
    /\ texto_saida' = SemTokens
    /\ UNCHANGED vars_fora_texto

NextTexto ==
    \/ Tokenizar
    \/ TokenizarRetornar

SpecTexto == Init /\ [][NextTexto]_vars


\* ================================================================== claims
\* 'text contains part': a code contains each of its underscore-separated parts
Contem(codigo, parte) == \E i \in 1..Len(codigo) : codigo[i] = parte

\* ----------------------------------------------------------- GerenciadorErros
\* Calls on the class-level registry, in any order. MaxRegistros bounds the
\* registrations made since the registry was last empty, MaxFalhas the records
\* of failed wrapped calls the registry holds at once.
MaxRegistros == 102
MaxFalhas == 1
Quantidades == {0, 1, 10}

RegistrosDeFalha(erros) == {i \in 1..Len(erros) : erros[i].traceback}

\* GerenciadorErros.registrar(erro) called directly, without an exception
Registrar ==
    /\ ~ultimos_erros.feito
    /\ num_registros < MaxRegistros
    /\ erros_registrados' =
           registrar(erros_registrados, Registro(ErroDireto, FALSE, num_registros + 1))
    /\ num_registros' = num_registros + 1
    /\ UNCHANGED ultimos_erros
    /\ UNCHANGED vars_fora_erros

\* A call wrapped by tratar_excecoes raises: the wrapper builds the error and
\* registers it with the exception.
TratarExcecao ==
    /\ ~ultimos_erros.feito
    /\ num_registros < MaxRegistros
    /\ Cardinality(RegistrosDeFalha(erros_registrados)) < MaxFalhas
    /\ \E e \in {"AttributeError", "ValueError"} :
         erros_registrados' =
             registrar(erros_registrados,
                       Registro(ErroDoWrapper(e), TRUE, num_registros + 1))
    /\ num_registros' = num_registros + 1
    /\ UNCHANGED ultimos_erros
    /\ UNCHANGED vars_fora_erros

\* GerenciadorErros.limpar()
Limpar ==
    /\ ~ultimos_erros.feito
    /\ erros_registrados' = limpar
    /\ num_registros' = 0
    /\ UNCHANGED ultimos_erros
    /\ UNCHANGED vars_fora_erros

\* GerenciadorErros.obter_ultimos_erros(quantidade)
ObterUltimosErros ==
    /\ ~ultimos_erros.feito
    /\ \E q \in Quantidades :
         ultimos_erros' = [feito |-> TRUE, quantidade |-> q,
                           erros |-> obter_ultimos_erros(erros_registrados, q)]
    /\ UNCHANGED <<erros_registrados, num_registros>>
    /\ UNCHANGED vars_fora_erros

\* the caller drops the list it was given
UltimosRetornar ==
    /\ ultimos_erros.feito
    /\ ultimos_erros' = SemUltimos
    /\ UNCHANGED <<erros_registrados, num_registros>>
    /\ UNCHANGED vars_fora_erros

NextErros == Registrar \/ TratarExcecao \/ Limpar \/ ObterUltimosErros \/ UltimosRetornar

SpecErros == Init /\ [][NextErros]_vars

\* a call of processar_solicitacao has returned to its caller
Retornou == pc = "retornou"

\* avaliar has been called in this call and has returned or raised
AvaliarChamado == regras_avaliadas # << >>

\* C1: when a step inside processar_solicitacao raises, the call returns a
\* Decision with action ESCALAR, confidence 'Baixa' and metodo_decisao
\* 'erro_fallback' (never null).
C1_ExcecaoViraDecisaoDegradada ==
    (Retornou /\ excecao # "") =>
        /\ resposta.t = "RespostaAgente"
        /\ resposta.acao = "ESCALAR"
        /\ resposta.confianca = "Baixa"
        /\ resposta.metodo_decisao = <<"erro_fallback">>

\* C2: when the rule engine returned a result with confidence ALTA, the call
\* returns a Decision with that rule's action, justification, policy code and
\* confidence, metodo_decisao 'politica', and the provider layer was not
\* invoked.
C2_RegraAltaDecide ==
    (Retornou /\ resultado_politica.tem /\ resultado_politica.confianca = "Alta") =>
        /\ resposta.t = "RespostaAgente"
        /\ resposta.acao = resultado_politica.decisao
        /\ resposta.resposta_final = <<resultado_politica.justificativa>>
        /\ resposta.codigo_politica = resultado_politica.codigo_politica
        /\ resposta.confianca = resultado_politica.confianca
        /\ resposta.metodo_decisao = <<"politica">>
        /\ chamadas_llm = 0

\* the rule engine returned (did not raise) in this call of the pipeline
MotorRetornou ==
    /\ Retornou
    /\ AvaliarChamado
    /\ avaliar(contexto).res.exc = ""

\* C3: when the rule engine returned none or a result with confidence BAIXA,
\* the provider layer is invoked exactly once and the call returns a Decision
\* with the provider's action and justification, the confidence label of the
\* provider's confidence (>= 0.8 'Alta', >= 0.5 'Media', else 'Baixa') and
\* metodo_decisao 'llm_' followed by the provider's model name.
C3_SemRegraOuBaixaUsaProvedor ==
    (MotorRetornou /\ (~resultado_politica.tem \/ resultado_politica.confianca = "Baixa")) =>
        /\ chamadas_llm = 1
        /\ resposta.t = "RespostaAgente"
        /\ resposta.acao = resposta_llm.decisao_sugerida
        /\ resposta.resposta_final = <<resposta_llm.justificativa>>
        /\ resposta.confianca = (IF resposta_llm.confianca >= 800 THEN "Alta"
                                 ELSE IF resposta_llm.confianca >= 500 THEN "Media"
                                 ELSE "Baixa")
        /\ resposta.metodo_decisao
             = <<"llm_", ModeloDe(obter_provedor_ativo(provedores))>>

\* C4: when the rule engine returned a result with confidence MEDIA, the
\* Decision has metodo_decisao 'combinado', the rule's policy code and
\* confidence, and action APROVAR if score_final >= 0.7 and the rule decided
\* APROVAR or ESCALAR, else REJEITAR if score_final < 0.4, else ESCALAR; the
\* provider layer is not invoked.
C4_RegraMediaCombinada ==
    (Retornou /\ resultado_politica.tem /\ resultado_politica.confianca = "Media") =>
        /\ resposta.t = "RespostaAgente"
        /\ resposta.metodo_decisao = <<"combinado">>
        /\ resposta.codigo_politica = resultado_politica.codigo_politica
        /\ resposta.confianca = resultado_politica.confianca
        /\ resposta.score = resultado_score.score_final
        /\ resposta.acao =
             (IF resultado_score.score_final >= 700
                 /\ resultado_politica.decisao \in {"APROVAR", "ESCALAR"}
              THEN "APROVAR"
              ELSE IF resultado_score.score_final < 400 THEN "REJEITAR"
              ELSE "ESCALAR")
        /\ chamadas_llm = 0

\* the rules whose predicate matches the context of the call
RegrasQueCasam == {i \in 1..NumRegras : Regra(i, contexto).tem}

\* C5: avaliar returns the result of the first rule of the priority order
\* whose predicate matches, calls no rule after it, and returns none exactly
\* when no rule matches.
C5_PrimeiraRegraDecide ==
    (AvaliarChamado /\ pc \in {"avaliou", "score", "retornou"}) =>
        IF RegrasQueCasam = {}
        THEN /\ avaliar(contexto).res.exc = ""
             /\ ~resultado_politica.tem
        ELSE LET k == CHOOSE i \in RegrasQueCasam : \A j \in RegrasQueCasam : i <= j
             IN /\ resultado_politica = Regra(k, contexto)
                /\ regras_avaliadas = [i \in 1..k |-> i]

\* a key of the context that is absent, empty or malformed
CampoFaltando(ctx) ==
    \/ ctx.t # "dict"
    \/ ctx.status = AUSENTE
    \/ ctx.motivo = AUSENTE
    \/ ctx.categoria \in {AUSENTE, NAO_TEXTO}
    \/ ctx.detalhes_adicionais.t # "dict"
    \/ ctx.detalhes_adicionais.valor_pedido.t # "texto"
    \/ ctx.detalhes_adicionais.valor_pedido.s = << >>

\* C6: a context with an absent, empty or malformed status, motivo, categoria
\* or detalhes_adicionais is not rejected: the call returns a Decision, scored
\* as the context with the safe defaults in the place of the absent values.
C6_CamposAusentesNormalizados ==
    (Retornou /\ CampoFaltando(contexto)) =>
        /\ resposta.t = "RespostaAgente"
        /\ \E sc \in calcular_score(normalizar(contexto), resultado_politica) :
             resposta.detalhes_score = sc.scores_parciais

\* C7: _extrair_valor, _extrair_tempo_espera and _score_valor never raise,
\* whatever valor_pedido, tempo_espera and detalhes_adicionais are: a direct
\* call of avaliar or of calcular_score ends without an exception, and so
\* does every step of processar_solicitacao on a context validar accepts.
C7_ParsersNuncaLevantam ==
    /\ pc \in {"avaliou", "pontuou"} => excecao = ""
    /\ (Retornou /\ validar(contexto)) => excecao = ""

\* C8: with motivo ARREPENDIMENTO_CLIENTE, whatever the category and the
\* details, avaliar decides REJEITAR for status SAIU_PARA_ENTREGA or ENTREGUE
\* and APROVAR for status AGUARDANDO_CONFIRMACAO or EM_PREPARACAO.
C8_Arrependimento ==
    (AvaliarChamado /\ contexto.motivo = "ARREPENDIMENTO_CLIENTE") =>
        /\ contexto.status \in {"SAIU_PARA_ENTREGA", "ENTREGUE"} =>
             (resultado_politica.tem /\ resultado_politica.decisao = "REJEITAR")
        /\ contexto.status \in {"AGUARDANDO_CONFIRMACAO", "EM_PREPARACAO"} =>
             (resultado_politica.tem /\ resultado_politica.decisao = "APROVAR")

\* C8 witness: a direct call decided REJEITAR for a remorse claim already out
\* for delivery, in the fraud category and with detalhes_adicionais null.
C8_Witness ==
    /\ pc = "avaliou"
    /\ contexto.motivo = "ARREPENDIMENTO_CLIENTE"
    /\ contexto.status = "SAIU_PARA_ENTREGA"
    /\ contexto.categoria = "fraude"
    /\ contexto.detalhes_adicionais.t = "nulo"
    /\ resultado_politica.decisao = "REJEITAR"

\* C9: with motivo CANCELAMENTO_RESTAURANTE, whatever the status, category
\* and details, avaliar returns APROVAR with confidence ALTA and a policy code
\* containing 'C1'.
C9_CancelamentoRestaurante ==
    (AvaliarChamado /\ contexto.motivo = "CANCELAMENTO_RESTAURANTE") =>
        /\ resultado_politica.tem
        /\ resultado_politica.decisao = "APROVAR"
        /\ resultado_politica.confianca = "Alta"
        /\ Contem(resultado_politica.codigo_politica, "C1")

\* C9 witness: the pipeline evaluated a restaurant cancellation of an order
\* still awaiting confirmation, with a number as valor_pedido, and the rule
\* engine returned CANCELAMENTO_C1.
C9_Witness ==
    /\ pc = "score"
    /\ contexto.motivo = "CANCELAMENTO_RESTAURANTE"
    /\ contexto.status = "AGUARDANDO_CONFIRMACAO"
    /\ contexto.detalhes_adicionais.valor_pedido.t = "numero"
    /\ resultado_politica.codigo_politica = <<"CANCELAMENTO", "C1">>

\* C10: with categoria 'fraude' and motivo COMPRA_NAO_RECONHECIDA, whatever
\* the status and the order value, the rule engine returns ANALISE_MANUAL with
\* confidence ALTA and a policy code containing 'F1', and the Decision of the
\* orchestrator carries that action.
C10_FraudeCompraNaoReconhecida ==
    (contexto.categoria = "fraude" /\ contexto.motivo = "COMPRA_NAO_RECONHECIDA") =>
        /\ AvaliarChamado =>
             /\ resultado_politica.tem
             /\ resultado_politica.decisao = "ANALISE_MANUAL"
             /\ resultado_politica.confianca = "Alta"
             /\ Contem(resultado_politica.codigo_politica, "F1")
        /\ Retornou =>
             /\ resposta.t = "RespostaAgente"
             /\ resposta.acao = "ANALISE_MANUAL"

\* the wait the context states, as int() reads it; -1 when it states none
\* (no details, no tempo_espera, an empty or unparsable text)
EsperaInformada(ctx) ==
    LET det == ctx.detalhes_adicionais
    IN IF det.t # "dict" THEN -1
       ELSE CASE det.tempo_espera.t = "texto" ->
                   IF det.tempo_espera.s # << >> /\ ParseInt(det.tempo_espera.s).exc = ""
                   THEN ParseInt(det.tempo_espera.s).val ELSE -1
              [] det.tempo_espera.t = "numero" -> det.tempo_espera.n
              [] OTHER -> -1

\* C11: with motivo ATRASO_ENTREGA, whatever the status, category and
\* details, avaliar returns a result tiered by the parsed wait: >= 60 gives
\* APROVAR / ALTA / a code containing 'CRITICO'; 30 <= wait < 60 gives
\* APROVAR / MEDIA / ATRASO_A1_SIGNIFICATIVO; a wait below 30, absent or
\* unparsable gives ESCALAR / BAIXA / ATRASO_A1_MODERADO.
C11_AtrasoPorFaixas ==
    (AvaliarChamado /\ contexto.motivo = "ATRASO_ENTREGA") =>
        LET w == EsperaInformada(contexto)
            r == resultado_politica
        IN /\ r.tem
           /\ w >= 60 =>
                /\ r.decisao = "APROVAR" /\ r.confianca = "Alta"
                /\ Contem(r.codigo_politica, "CRITICO")
           /\ (30 <= w /\ w < 60) =>
                /\ r.decisao = "APROVAR" /\ r.confianca = "Media"
                /\ r.codigo_politica = <<"ATRASO", "A1", "SIGNIFICATIVO">>
           /\ w < 30 =>
                /\ r.decisao = "ESCALAR" /\ r.confianca = "Baixa"
                /\ r.codigo_politica = <<"ATRASO", "A1", "MODERADO">>

\* C12: with status ENTREGUE, motivo ERRO_RESTAURANTE and valor_pedido
\* '89.00', for every category value (an absent one included),
\* processar_solicitacao returns action APROVAR with metodo_decisao
\* 'politica' and a score of at least 0.7.
C12_ErroRestauranteEntregue ==
    (/\ Retornou
     /\ contexto.status = "ENTREGUE"
     /\ contexto.motivo = "ERRO_RESTAURANTE"
     /\ contexto.detalhes_adicionais.t = "dict"
     /\ contexto.detalhes_adicionais.valor_pedido
          = Texto(<<"8", "9", ".", "0", "0">>)) =>
        /\ resposta.t = "RespostaAgente"
        /\ resposta.acao = "APROVAR"
        /\ resposta.metodo_decisao = <<"politica">>
        /\ resposta.score >= 700

\* the weighted sum of five partial scores, in ten-thousandths
SomaPonderada(p) ==
    25 * p.tipo_problema + 15 * p.valor_pedido + 15 * p.status_pedido
    + 25 * p.motivo + 20 * p.politica

\* C13: for every context and optional rule result, calcular_score yields
\* five partial scores in [0,1] (0.5 for an unknown or absent category,
\* status, motivo or order value and for an absent rule result), score_final
\* is 0.25*tipo + 0.15*valor + 0.15*status + 0.25*motivo + 0.20*politica
\* (to the third decimal) and lies in [0,1], and the applied weights are the
\* weights the scoring system declares, which sum to 1.
C13_ScorePonderado ==
    pc = "pontuou" =>
        LET p == resultado_score.scores_parciais
            det == contexto.detalhes_adicionais
        IN /\ resultado_score.tem
           /\ \A k \in DOMAIN p : p[k] \in 0..100
           /\ contexto.categoria \notin CategoriasConhecidas => p.tipo_problema = 50
           /\ contexto.status \notin StatusValidos => p.status_pedido = 50
           /\ contexto.motivo \notin MotivosConhecidos => p.motivo = 50
           /\ (det.t # "dict" \/ det.valor_pedido.t = "ausente") => p.valor_pedido = 50
           /\ ~resultado_politica.tem => p.politica = 50
           /\ resultado_score.score_final \in Round3(SomaPonderada(p))
           /\ resultado_score.score_final \in 0..1000
           /\ PESOS = PesosAplicados
           /\ 25 + 15 + 15 + 25 + 20 = 100

\* the provider manager of the agent is constructed
GerenciadorConstruido == pc \in {"idle", "analisou", "decidiu"}

\* C14: for every combination of available remote providers,
\* obter_provedor_ativo returns OpenAI if it is available, otherwise Gemini if
\* it is available, otherwise the local analyzer, never none; so
\* GerenciadorLLM.analisar calls that provider and never returns the
\* 'no provider available' response.
C14_ProvedorPorPreferencia ==
    GerenciadorConstruido =>
        LET ativo == obter_provedor_ativo(provedores)
        IN /\ ativo # NenhumProvedor
           /\ ProvedorOPENAI \in provedores => ativo = ProvedorOPENAI
           /\ (ProvedorOPENAI \notin provedores /\ ProvedorGEMINI \in provedores)
                => ativo = ProvedorGEMINI
           /\ (ProvedorOPENAI \notin provedores /\ ProvedorGEMINI \notin provedores)
                => ativo = ProvedorLOCAL
           /\ pc = "analisou" =>
                /\ cliente = Cliente(ativo, TRUE)
                /\ resposta_llm.erro # "Sem provedores"
                /\ resposta_llm \notin GerenciadorLLM_analisar({}, contexto)

\* C14 witness: with no OpenAI credential the manager called Gemini.
C14_Witness ==
    /\ pc = "analisou"
    /\ provedores = {ProvedorGEMINI, ProvedorLOCAL}
    /\ cliente = Cliente(ProvedorGEMINI, TRUE)
    /\ resposta_llm.sucesso

\* a call on a remote client failed: the client is not initialised, the
\* transport or the reading of the response raised, or the parsing raised an
\* exception _parsear_resposta does not handle (float of a null confidence)
ChamadaRemotaFalhou ==
    /\ pc \in {"analisou", "cliente_analisou", "decidiu"}
    /\ cliente.provedor \in {ProvedorOPENAI, ProvedorGEMINI}
    /\ \/ ~cliente.disponivel
       \/ saida_modelo.falha # ""
       \/ saida_modelo.json = "objeto" /\ saida_modelo.confianca.t = "nulo"

\* C15: for both remote providers, any failure while analysing makes analisar
\* return a response with sucesso False, decisao_sugerida ESCALAR, confianca
\* 0.0 and the error text in erro; the orchestrator then finishes with a
\* Decision of action ESCALAR and confidence 'Baixa'.
C15_FalhaRemotaEscala ==
    ChamadaRemotaFalhou =>
        /\ ~resposta_llm.sucesso
        /\ resposta_llm.decisao_sugerida = "ESCALAR"
        /\ resposta_llm.confianca = 0
        /\ resposta_llm.erro # ""
        /\ pc = "decidiu" =>
             /\ resposta.t = "RespostaAgente"
             /\ resposta.acao = "ESCALAR"
             /\ resposta.confianca = "Baixa"

\* C15 witness: the Gemini call raised in the transport and the pipeline
\* finished with ESCALAR.
C15_Witness ==
    /\ pc = "decidiu"
    /\ cliente = Cliente(ProvedorGEMINI, TRUE)
    /\ saida_modelo.falha = "transporte"
    /\ resposta.acao = "ESCALAR"
    /\ resposta.confianca = "Baixa"

\* a remote call that returned a text without a well-formed structured answer:
\* no JSON object, an object that does not decode, or a confidence that is
\* not a number
SemRespostaEstruturada ==
    /\ pc \in {"analisou", "cliente_analisou"}
    /\ cliente.provedor \in {ProvedorOPENAI, ProvedorGEMINI}
    /\ cliente.disponivel
    /\ saida_modelo.falha = ""
    /\ \/ saida_modelo.json \in {"ausente", "invalido"}
       \/ saida_modelo.json = "objeto" /\ saida_modelo.confianca.t \in {"texto", "nulo"}

\* the keyword heuristic as published
HeuristicaPalavras(ps) ==
    IF "aprovar" \in ps \/ "reembolso" \in ps THEN "APROVAR"
    ELSE IF "rejeitar" \in ps \/ "nao elegivel" \in ps THEN "REJEITAR"
    ELSE "ESCALAR"

\* C16: for both remote providers alike, a text without a well-formed
\* structured answer gives a response with sucesso True, confianca 0.5 and the
\* decision of the keyword heuristic (APROVAR for 'aprovar' or 'reembolso',
\* else REJEITAR for 'rejeitar' or 'nao elegivel', else ESCALAR), and both
\* providers give the same decision for the same text.
C16_HeuristicaIgualNosDoisProvedores ==
    SemRespostaEstruturada =>
        /\ resposta_llm.sucesso
        /\ resposta_llm.confianca = 500
        /\ resposta_llm.decisao_sugerida = HeuristicaPalavras(saida_modelo.palavras)
        /\ ClienteOpenAI_analisar(TRUE, saida_modelo).decisao_sugerida
             = ClienteGemini_analisar(TRUE, saida_modelo).decisao_sugerida

DecisoesLLM == {"APROVAR", "REJEITAR", "ESCALAR"}

\* C17: every response a provider returns has a decision among APROVAR,
\* REJEITAR, ESCALAR and a confidence in [0, 1], so the action of every
\* Decision formed from it is one of APROVAR, REJEITAR, ESCALAR,
\* ANALISE_MANUAL.
C17_RespostaDentroDoEsquema ==
    /\ pc \in {"analisou", "cliente_analisou", "decidiu"} =>
         /\ resposta_llm.decisao_sugerida \in DecisoesLLM
         /\ resposta_llm.confianca \in 0..1000
    /\ (pc = "decidiu" /\ resposta.t = "RespostaAgente") =>
         resposta.acao \in DecisoesLLM \cup {"ANALISE_MANUAL"}

\* C18: an evaluation writes no state shared with other evaluations: at every
\* point of any interleaving of avaliar calls on one engine the engine is as
\* constructed, and each call returns what it returns when run alone.
C18_AvaliacaoSemEstadoCompartilhado ==
    /\ regras_executadas = << >>
    /\ \A t \in Threads :
         linha[t] = "retornou" => resultado[t] = avaliar(chamada[t]).res

\* the audit events of one call in their order: the rule event when a rule
\* fired, the provider event when the provider was invoked
TrilhaCompleta(regra, provedor) ==
    <<"INICIO_PROCESSAMENTO", "BUSCA_BASE_CONHECIMENTO">>
    \o (IF regra THEN <<"APLICACAO_POLITICA">> ELSE << >>)
    \o <<"CALCULO_SCORE">>
    \o (IF provedor THEN <<"ANALISE_LLM">> ELSE << >>)
    \o <<"DECISAO_AUTOMATICA", "FIM_PROCESSAMENTO">>

Prefixo(a, b) == Len(a) <= Len(b) /\ \A i \in 1..Len(a) : a[i] = b[i]

NumFim(evs) == Cardinality({i \in 1..Len(evs) : evs[i] = "FIM_PROCESSAMENTO"})

\* C19: the audit events of one claim come in the order start, retrieval,
\* rule application (iff a rule fired), score, provider analysis (iff the
\* provider was invoked), final decision, end; and every call that logged a
\* start has, once it returned, exactly one end event, also when the call
\* failed with an exception.
C19_TrilhaDeAuditoria ==
    /\ \E regra \in BOOLEAN, provedor \in BOOLEAN :
         Prefixo(eventos, TrilhaCompleta(regra, provedor))
    /\ (Retornou /\ excecao = "") =>
         eventos = TrilhaCompleta(resultado_politica.tem, chamadas_llm > 0)
    /\ (Retornou /\ eventos # << >>) =>
         /\ NumFim(eventos) = 1
         /\ eventos[Len(eventos)] = "FIM_PROCESSAMENTO"

\* the sum of a sequence of scores, each halved
RECURSIVE SomaMetades(_)
SomaMetades(scores) ==
    IF scores = << >> THEN 0
    ELSE Head(scores).score_similaridade \div 2 + SomaMetades(Tail(scores))

\* the matches of one fonte in a list of results, in their order
RECURSIVE DaFonte(_, _)
DaFonte(rs, fonte) ==
    IF rs = << >> THEN << >>
    ELSE (IF Head(rs).fonte = fonte THEN <<Head(rs)>> ELSE << >>)
         \o DaFonte(Tail(rs), fonte)

\* the score of a fonte as the three steps build it: 1.0 x 1.2 for a category
\* match, the maximum with its TF-IDF matches, half of each exact match added
\* (the first exact match whole when nothing was there), or 0 for no match
ScoreDaFonte(itens, e, fonte) ==
    LET cat == IF e.categoria \in {AUSENTE, NAO_TEXTO} THEN << >>
               ELSE DaFonte(buscar_por_categoria(itens, e.categoria), fonte)
        tf == DaFonte(buscar_tfidf(itens, e.similaridade, e.top_k * 2), fonte)
        ex == DaFonte(buscar_exato(itens, e.sobreposicao), fonte)
        antes == {1200 : k \in 1..Len(cat)}
                 \cup {tf[k].score_similaridade : k \in 1..Len(tf)}
    IN IF antes # {}
       THEN (CHOOSE m \in antes : \A x \in antes : x <= m) + SomaMetades(ex)
       ELSE IF ex # << >>
       THEN Head(ex).score_similaridade + SomaMetades(Tail(ex))
       ELSE 0

\* C20: for every query, contexto and top_k, buscar returns at most top_k
\* results, sorted by non-increasing score, with pairwise distinct fontes,
\* each with the score the three steps build for its fonte.
C20_BuscaHibrida ==
    busca_saida.feito =>
        LET rs == busca_saida.resultados
        IN /\ busca_saida.exc = ""
           /\ Len(rs) <= busca_entrada.top_k
           /\ \A i \in 1..Len(rs), j \in 1..Len(rs) :
                /\ i < j => rs[i].score_similaridade >= rs[j].score_similaridade
                /\ i # j => rs[i].fonte # rs[j].fonte
           /\ \A i \in 1..Len(rs) :
                rs[i].score_similaridade = ScoreDaFonte(base.itens, busca_entrada, rs[i].fonte)

\* every result of a list has a similarity score in [0, 1]
ScoresEmZeroUm(rs) ==
    \A i \in 1..Len(rs) : rs[i].score_similaridade \in 0..1000

\* C21: every search result returned by buscar, buscar_exato, buscar_tfidf and
\* buscar_por_categoria, for every query and contexto, has a similarity score
\* in [0, 1].
C21_ScoreDeSimilaridadeEmZeroUm ==
    (busca_saida.feito /\ busca_saida.exc = "") =>
        /\ ScoresEmZeroUm(buscar_por_categoria(base.itens, busca_entrada.categoria))
        /\ ScoresEmZeroUm(buscar_tfidf(base.itens, busca_entrada.similaridade,
                                       busca_entrada.top_k * 2))
        /\ ScoresEmZeroUm(buscar_exato(base.itens, busca_entrada.sobreposicao))
        /\ ScoresEmZeroUm(busca_saida.resultados)

\* C22: constructing the knowledge base from a missing file succeeds with zero
\* items; from then on the searches return the empty list for every query and
\* contexto and obter_contexto_relevante returns the fixed sentence.
C22_BaseVaziaConsultavel ==
    (base.construida /\ base.itens = << >> /\ busca_saida.feito) =>
        /\ busca_saida.exc = ""
        /\ busca_saida.resultados = << >>
        /\ buscar_por_categoria(base.itens, busca_entrada.categoria) = << >>
        /\ buscar_tfidf(base.itens, busca_entrada.similaridade,
                        busca_entrada.top_k) = << >>
        /\ buscar_exato(base.itens, busca_entrada.sobreposicao) = << >>
        /\ obter_contexto_relevante(base.itens, busca_entrada)
             = [exc |-> "", texto |-> SemPoliticas]

\* the local analyzer has answered a call
LocalAnalisou ==
    /\ pc \in {"analisou", "cliente_analisou"}
    /\ cliente = Cliente(ProvedorLOCAL, TRUE)

\* the contexto matches none of the special cases of the local analyzer
SemCasoEspecial(ctx) ==
    /\ ctx.categoria # "fraude"
    /\ ctx.motivo \notin {"ERRO_RESTAURANTE", "ERRO_APP", "CANCELAMENTO_RESTAURANTE"}
    /\ ~(ctx.motivo = "ARREPENDIMENTO_CLIENTE"
         /\ ctx.status \in {"SAIU_PARA_ENTREGA", "ENTREGUE"})

\* C23: for every text the local analyzer answers with sucesso True and,
\* whatever the text: categoria 'fraude' gives ESCALAR with 0.9 whatever the
\* motivo and status; otherwise an operational motivo gives APROVAR with 0.85;
\* otherwise ARREPENDIMENTO_CLIENTE after SAIU_PARA_ENTREGA or ENTREGUE gives
\* REJEITAR with 0.9.
C23_CasosEspeciaisDoAnalisadorLocal ==
    LocalAnalisou =>
        /\ resposta_llm.sucesso
        /\ contexto.categoria = "fraude" =>
             /\ resposta_llm.decisao_sugerida = "ESCALAR"
             /\ resposta_llm.confianca = 900
        /\ (contexto.categoria # "fraude"
            /\ contexto.motivo \in {"ERRO_RESTAURANTE", "ERRO_APP",
                                    "CANCELAMENTO_RESTAURANTE"}) =>
             /\ resposta_llm.decisao_sugerida = "APROVAR"
             /\ resposta_llm.confianca = 850
        /\ (contexto.categoria # "fraude"
            /\ contexto.motivo = "ARREPENDIMENTO_CLIENTE"
            /\ contexto.status \in {"SAIU_PARA_ENTREGA", "ENTREGUE"}) =>
             /\ resposta_llm.decisao_sugerida = "REJEITAR"
             /\ resposta_llm.confianca = 900

\* C23 witness: a fraud claim with an operational motivo and a text full of
\* negative indicators was escalated by the local analyzer.
C23_Witness ==
    /\ LocalAnalisou
    /\ contexto.categoria = "fraude"
    /\ contexto.motivo = "ERRO_APP"
    /\ indicadores = Indicadores(0, MaxIndicadores)
    /\ resposta_llm.decisao_sugerida = "ESCALAR"

\* C24: for a contexto matching no special case, with p positive and n
\* negative indicator matches: p + n = 0 gives ESCALAR with no division by
\* zero; otherwise r = (p - n) / (p + n) gives APROVAR above 0.3, REJEITAR
\* below -0.3 and ESCALAR in between.
C24_DecisaoPorIndicadores ==
    (LocalAnalisou /\ SemCasoEspecial(contexto)) =>
        LET p == indicadores.pos
            n == indicadores.neg
        IN /\ resposta_llm.sucesso
           /\ p + n = 0 => resposta_llm.decisao_sugerida = "ESCALAR"
           /\ (p + n > 0 /\ 10 * (p - n) > 3 * (p + n)) =>
                resposta_llm.decisao_sugerida = "APROVAR"
           /\ (p + n > 0 /\ 10 * (p - n) < -3 * (p + n)) =>
                resposta_llm.decisao_sugerida = "REJEITAR"
           /\ (p + n > 0 /\ 10 * (p - n) <= 3 * (p + n)
                         /\ 10 * (p - n) >= -3 * (p + n)) =>
                resposta_llm.decisao_sugerida = "ESCALAR"

\* C24 witness: as many positive as negative matches, at least one of each,
\* and the analyzer escalated.
C24_Witness ==
    /\ LocalAnalisou
    /\ SemCasoEspecial(contexto)
    /\ indicadores.pos > 0
    /\ indicadores.pos = indicadores.neg
    /\ resposta_llm.decisao_sugerida = "ESCALAR"

\* C25: the confidence the local analyzer reports is at most 0.85, for every
\* text and contexto.
C25_ConfiancaLocalLimitada ==
    LocalAnalisou => resposta_llm.confianca <= 850

\* the tokens of a normalised text that stopword removal keeps
Mantido(t) == Len(t) > 2 /\ t \notin STOPWORDS

\* C26: for every text normalizar(normalizar(x)) = normalizar(x), and
\* tokenizar(x) with stopword removal returns no token of length 2 or less and
\* no stopword, and keeps the remaining tokens in their original order.
C26_NormalizarIdempotente ==
    texto_saida.feito =>
        /\ NormalizarCaracteres(texto_saida.normalizado) = texto_saida.normalizado
        /\ \A i \in 1..Len(texto_saida.tokens) :
             /\ Len(texto_saida.tokens[i]) > 2
             /\ texto_saida.tokens[i] \notin STOPWORDS
        /\ texto_saida.tokens
             = SelectSeq(tokenizar(texto, FALSE), Mantido)

\* C26 witness: a text with upper case, punctuation, a stopword and a short
\* token between two tokens that are kept in their order.
C26_Witness ==
    /\ texto_saida.feito
    /\ texto = <<"L", "e", "L", "!", "e", "e", "L">>
    /\ texto_saida.normalizado = <<"l", "e", "l", " ", "e", "e", "l">>
    /\ texto_saida.tokens = <<<<"l", "e", "l">>, <<"e", "e", "l">>>>

\* C27: the provider layer falls back at analysis time: when the provider
\* GerenciadorLLM.analisar selected fails during the call, the response comes
\* from the next provider in the preference order, so with the local analyzer
\* registered the response returned to the orchestrator has sucesso True.
C27_FallbackNaAnalise ==
    (pc \in {"analisou", "decidiu"} /\ ProvedorLOCAL \in provedores) =>
        /\ resposta_llm.sucesso
        /\ (saida_modelo.falha # "" \/ ~cliente.disponivel) =>
             resposta_llm.modelo \in {ModeloDe(ProvedorGEMINI), ModeloDe(ProvedorLOCAL)}

\* the policy codes of the rules of confidence MEDIA
CodigosMedia ==
    {<<"ENTREGA", "D1">>, <<"ENTREGA", "D1", "ALTO", "VALOR">>, <<"ENTREGA", "D2">>,
     <<"ATRASO", "A1", "SIGNIFICATIVO">>, <<"VALOR", "V1">>, <<"FRAUDE", "F3">>}

\* the call took the combined branch and built its Decision
Combinada == resposta.t = "RespostaAgente" /\ resposta.metodo_decisao = <<"combinado">>

\* C28: on the combined path the action is APROVAR or ESCALAR: the rule that
\* fired is one of the six rules of confidence MEDIA, the score computed for
\* such a context is at least 0.4, so REJEITAR is never taken, and a rule
\* decision of ANALISE_MANUAL becomes ESCALAR.
C28_CaminhoCombinado ==
    /\ (resultado_score.tem /\ resultado_politica.tem
        /\ resultado_politica.confianca = "Media") =>
           /\ resultado_politica.codigo_politica \in CodigosMedia
           /\ resultado_score.score_final >= 400
    /\ Combinada =>
           /\ resultado_politica.confianca = "Media"
           /\ resposta.acao \in {"APROVAR", "ESCALAR"}
           /\ resultado_politica.decisao = "ANALISE_MANUAL" => resposta.acao = "ESCALAR"

\* C28 witness: a high-value claim of unknown motivo fired VALOR_V1 with
\* ANALISE_MANUAL, scored below 0.5, and the combined Decision is ESCALAR.
C28_Witness ==
    /\ Retornou
    /\ Combinada
    /\ resultado_politica.codigo_politica = <<"VALOR", "V1">>
    /\ resultado_politica.decisao = "ANALISE_MANUAL"
    /\ resultado_score.score_final < 500
    /\ resposta.acao = "ESCALAR"

\* C29: a claim of categoria 'fraude' is never decided automatically by the
\* deterministic rules: whatever its motivo, status and details, a Decision
\* with metodo_decisao 'politica' or 'combinado' has action ANALISE_MANUAL or
\* ESCALAR, never APROVAR or REJEITAR.
C29_FraudeNuncaAutomatica ==
    (/\ contexto # ContextoNulo
     /\ contexto.categoria = "fraude"
     /\ resposta.t = "RespostaAgente"
     /\ resposta.metodo_decisao \in {<<"politica">>, <<"combinado">>}) =>
        resposta.acao \in {"ANALISE_MANUAL", "ESCALAR"}

\* C30: after any sequence of registrar and limpar calls, the registrations of
\* tratar_excecoes included, the registry holds at most 100 records, in
\* registration order, and they are the most recently registered ones (the
\* oldest is evicted when the registry is full); obter_ultimos_erros(n) returns
\* at most n of them.
C30_RegistroLimitado ==
    LET n == Len(erros_registrados)
    IN /\ n <= _max_erros
       /\ n = Min(num_registros, _max_erros)
       /\ \A i \in 1..n : erros_registrados[i].ordem = num_registros - n + i
       /\ ultimos_erros.feito =>
            /\ Len(ultimos_erros.erros) <= ultimos_erros.quantidade
            /\ \A i \in 1..Len(ultimos_erros.erros) :
                 ultimos_erros.erros[i] =
                     erros_registrados[n - Len(ultimos_erros.erros) + i]

====
